---- MODULE Spec2Model ----
(***************************************************************************)
(* ZeroOS: the virtual file system dispatcher (zeroos-vfs-core), the       *)
(* built-in devices it routes to, the ioctl command decoder and the user   *)
(* pointer wrapper it uses (zeroos-foundation), the trap-frame accessors   *)
(* (zeroos-arch-riscv), the conditional template renderer (mini-template)  *)
(* and the initial stack builder (zeroos-runtime-musl).                    *)
(*                                                                         *)
(* The descriptor table of the source has 256 slots.  The model keeps the  *)
(* table's shape (three reserved slots, then the allocatable ones) and     *)
(* scales its capacity to MAX_FDS, so "255" of the source reads MAX_FDS-1  *)
(* here and "253 allocatable slots" reads MAX_FDS - FIRST_FD.              *)
(***************************************************************************)
EXTENDS Integers, Sequences, FiniteSets, TLC

(* ------------------------------ bounds -------------------------------- *)

\* Capacity of the descriptor table (vfs.rs:8 has 256).
MAX_FDS == 6

\* The most registrations the registry (Vfs::devices, a Vec without a
\* limit) is grown to.
MaxDevices == 2

(* ------------------------- program constants -------------------------- *)

\* First descriptor open may allocate: the literal 3 of Vfs::new and Vfs::open.
FIRST_FD == 3

\* libc errno values (Linux).
ENOENT == 2
EBADF == 9
EFAULT == 14
EINVAL == 22
EMFILE == 24
ENOTTY == 25
ESPIPE == 29
ENOSYS == 38

(* ------------------------------ inputs -------------------------------- *)

\* Paths handed to open; "/dev/full" is never registered.
Paths == {"/dev/zero", "/dev/full"}
\* (path, factory) pairs handed to register_device, each any number of
\* times.  A factory is named by the device it creates; the path can be
\* registered with either factory, in either order.
Registrations == {<<"/dev/zero", "zero">>, <<"/dev/zero", "null">>}
\* Entries handed to register_fd: the console device of
\* zeroos-device-console that stdin_factory builds.
ConsoleKinds == {"stdin"}
\* Descriptor arguments: every slot, and one value out of range on each side.
FdArgs == (0 - 1)..MAX_FDS
\* Descriptors handed to register_fd: a reserved slot, an allocatable slot,
\* and one value out of range on each side.
RegFds == {0 - 1, 0, FIRST_FD, MAX_FDS}
\* Descriptors handed to read, write, lseek, ioctl and fstat: a reserved slot,
\* an allocatable slot, and one value out of range on each side.
IoFds == {0 - 1, 0, FIRST_FD, MAX_FDS}
\* User buffer addresses (0 is the null address) and byte counts.
Bufs == {0, 4096}
Counts == {0, 2}
\* lseek arguments.
Offsets == {8}
Whences == {1}
\* Raw ioctl request words: TCGETS (0x5401) and 0x40047601 (direction bits 01,
\* size 4, magic 0x76, nr 1).
Requests == {21505, 1074034177}
IoctlArgs == {4096}

Max(a, b) == IF a >= b THEN a ELSE b
Min(a, b) == IF a <= b THEN a ELSE b

(* ------------------------------ state --------------------------------- *)

VARIABLES
    fd_table,   \* Vfs.fd_table: slot -> NoEntry or the entry bound there
    next_fd,    \* Vfs.next_fd: the hint open starts scanning at
    devices,    \* Vfs.devices: the registry, a sequence of <<path, factory>>
    opened,     \* history: slot -> the instance created by the latest open
                \*   that returned it, NoInst once close succeeded on the slot
    last,       \* the VFS call made by the last step, and what it returned
    call,       \* the device or factory method that call invoked, if any
    stored,     \* the bytes that call stored through its user buffer
    frames,     \* the trap frames: [dst |-> frame, src |-> frame]
    cell        \* the GlobalCell around the Vfs, and where each caller of
                \*   the global functions stands in its call

vars == <<fd_table, next_fd, devices, opened, last, call, stored, frames,
          cell>>

\* The callers of the global VFS functions; 0 is no caller.
Callers == {1, 2}
\* The cell with nobody inside, every caller between two calls.
NoCell ==
    [borrowed |-> 0,
     at       |-> [c \in Callers |-> "idle"],
     found    |-> [c \in Callers |-> 0 - 1],
     path     |-> [c \in Callers |-> ""],
     held     |-> [c \in Callers |-> {}],
     live     |-> {}]

\* The registers of a trap frame that the architecture operations name.
FrameRegs ==
    {"a0", "a1", "a2", "a3", "a4", "a5", "a7",
     "sp", "tp", "mepc", "mcause", "mtval"}
\* TrapFrame::new(): the frame with every register 0.
TrapFrame_new == [reg \in FrameRegs |-> 0]
\* Two frames nothing has written to.
NewFrames == [dst |-> TrapFrame_new, src |-> TrapFrame_new]

\* No device instance.
NoInst == <<>>
\* Option<FdEntry>::None.
NoEntry == [id |-> NoInst, kind |-> "none"]
\* Option<Fd>::None of the scan in open.
NoFd == 0 - 1
\* No device or factory method was invoked.
NoCall == [inst |-> NoInst, meth |-> "none", args |-> <<>>]

Slots == 0..(MAX_FDS - 1)
Bound(tbl, fd) == tbl[fd] # NoEntry
InRange(fd) == ~(fd < 0 \/ fd >= MAX_FDS)

(* --------------------- zeroos-foundation: ioctl.rs --------------------- *)

\* A raw usize word is held in two halves, [hi |-> .., lo |-> ..]: lo is its
\* bits [0,16), hi its bits from 16 upwards (raw = hi * 2^16 + lo).
Word(n) == [hi |-> n \div 65536, lo |-> n % 65536]

RECURSIVE Pow2(_)
Pow2(n) == IF n = 0 THEN 1 ELSE 2 * Pow2(n - 1)

\* The bitwise or of two naturals.
RECURSIVE BitOr(_, _)
BitOr(a, b) ==
    IF a = 0 THEN b
    ELSE IF b = 0 THEN a
    ELSE Max(a % 2, b % 2) + 2 * BitOr(a \div 2, b \div 2)

\* (raw >> shift) & ((1 << width) - 1), for a field inside one half.
Field(raw, shift, width) ==
    IF shift >= 16 THEN (raw.hi \div Pow2(shift - 16)) % Pow2(width)
    ELSE (raw.lo \div Pow2(shift)) % Pow2(width)

\* IoctlCommand::NRBITS, TYPEBITS, SIZEBITS, DIRBITS and the shifts.
NRBITS == 8
TYPEBITS == 8
SIZEBITS == 14
DIRBITS == 2
NRSHIFT == 0
TYPESHIFT == NRSHIFT + NRBITS
SIZESHIFT == TYPESHIFT + TYPEBITS
DIRSHIFT == SIZESHIFT + SIZEBITS

\* IoctlDir::from_u8.
from_u8(val) ==
    LET v == val % 4
    IN  CASE v = 0 -> "None"
          [] v = 1 -> "Read"
          [] v = 2 -> "Write"
          [] v = 3 -> "ReadWrite"

\* The outcome of a call that panics.
Panic == [panic |-> "ioctl size too large"]

\* new with the size test off by one: a size of 16383 is refused.
MutNewOffByOne(dir, magic, nr, size) ==
    IF size >= Pow2(SIZEBITS) - 1 THEN Panic
    ELSE [dir |-> dir, size |-> size % 65536, magic |-> magic, nr |-> nr]

\* IoctlCommand::new.
new(dir, magic, nr, size) ==
    IF size > Pow2(SIZEBITS) - 1 THEN Panic
    ELSE [dir |-> dir, size |-> size % 65536, magic |-> magic, nr |-> nr]

\* from_raw with the size taken 16 bits wide, the mask left out.
MutFromRawWideSize(raw) ==
    LET dir_val == Field(raw, DIRSHIFT, DIRBITS)
    IN  [dir   |-> CASE dir_val = 0 -> "None"
                     [] dir_val = 1 -> "Write"
                     [] dir_val = 2 -> "Read"
                     [] dir_val = 3 -> "ReadWrite",
         size  |-> Field(raw, SIZESHIFT, 16),
         magic |-> Field(raw, TYPESHIFT, 8),
         nr    |-> Field(raw, NRSHIFT, 8)]

\* IoctlCommand::from_raw: the fields of a raw request word.
from_raw(raw) ==
    LET nr      == Field(raw, NRSHIFT, 8)
        magic   == Field(raw, TYPESHIFT, 8)
        size    == Field(raw, SIZESHIFT, SIZEBITS)
        dir_val == Field(raw, DIRSHIFT, DIRBITS)
        dir     == CASE dir_val = 0 -> "None"
                     [] dir_val = 1 -> "Write"
                     [] dir_val = 2 -> "Read"
                     [] dir_val = 3 -> "ReadWrite"
    IN  [dir |-> dir, size |-> size, magic |-> magic, nr |-> nr]

\* to_raw with the direction bits of the enum's discriminants (Read = 1,
\* Write = 2).
MutToRawDiscriminant(cmd) ==
    LET dir_bits == CASE cmd.dir = "None"      -> 0
                      [] cmd.dir = "Read"      -> 1
                      [] cmd.dir = "Write"     -> 2
                      [] cmd.dir = "ReadWrite" -> 3
    IN  [hi |-> BitOr(cmd.size * Pow2(SIZESHIFT - 16),
                      dir_bits * Pow2(DIRSHIFT - 16)),
         lo |-> BitOr(cmd.nr * Pow2(NRSHIFT), cmd.magic * Pow2(TYPESHIFT))]

\* IoctlCommand::to_raw: the fields shifted into place and or-ed.
to_raw(cmd) ==
    LET dir_bits == CASE cmd.dir = "None"      -> 0
                      [] cmd.dir = "Write"     -> 1
                      [] cmd.dir = "Read"      -> 2
                      [] cmd.dir = "ReadWrite" -> 3
    IN  [hi |-> BitOr(cmd.size * Pow2(SIZESHIFT - 16),
                      dir_bits * Pow2(DIRSHIFT - 16)),
         lo |-> BitOr(cmd.nr * Pow2(NRSHIFT), cmd.magic * Pow2(TYPESHIFT))]

(* ------------------------- the built-in devices ------------------------ *)

\* The console trampolines (read_fn, write_fn) are supplied by the platform;
\* they transfer the whole request.
ConsoleFn(buf, count) == count

\* foundation::kfn::random::krandom: fills count bytes at buf and returns the
\* number of bytes it produced.
krandom(buf, count) == count

\* DevRead with every device testing the buffer before the length.
MutDevReadNullFirst(kind, buf, count) ==
    IF buf = 0 THEN 0 - EFAULT
    ELSE IF kind \in {"null", "stdout"} THEN 0 ELSE count

\* Device::read of each device; "plain" is a device that overrides nothing
\* (impl Device for D {}).
DevRead(kind, buf, count) ==
    CASE kind = "null"   -> 0
      [] kind = "urandom" -> IF count # 0 /\ buf = 0 THEN 0 - EFAULT
                             ELSE krandom(buf, count)
      [] kind = "zero"   -> IF count = 0 THEN 0
                            ELSE IF buf = 0 THEN 0 - EFAULT
                            ELSE count
      [] kind = "stdin"  -> ConsoleFn(buf, count)
      [] kind = "stdout" -> 0
      [] kind = "plain"  -> 0 - EBADF

\* A byte whose value the platform chooses (console input, random source).
AnyByte == 0 - 1

\* DevStored with the zero device filling one byte less than asked.
MutDevStoredShort(kind, buf, count) ==
    IF kind = "zero" /\ count # 0 /\ buf # 0
    THEN [i \in 1..(count - 1) |-> 0] ELSE <<>>

\* The bytes Device::read of each device stores at buf.
DevStored(kind, buf, count) ==
    CASE kind = "zero"    -> IF count = 0 \/ buf = 0 THEN <<>>
                             ELSE [i \in 1..count |-> 0]
      [] kind = "urandom" -> IF count # 0 /\ buf = 0 THEN <<>>
                             ELSE [i \in 1..krandom(buf, count) |-> AnyByte]
      [] kind = "stdin"   -> [i \in 1..ConsoleFn(buf, count) |-> AnyByte]
      [] OTHER            -> <<>>

\* Device::write of each device.
DevWrite(kind, buf, count) ==
    CASE kind = "null"   -> count
      [] kind = "urandom" -> 0 - EBADF
      [] kind = "zero"   -> count
      [] kind = "stdin"  -> 0 - EBADF
      [] kind = "stdout" -> ConsoleFn(buf, count)
      [] kind = "plain"  -> 0 - EBADF

\* DevSeek answering as a descriptor error instead of "not seekable".
MutDevSeekBadf(kind, offset, whence) == 0 - EBADF

\* Device::seek: no built-in device overrides the default.
DevSeek(kind, offset, whence) == 0 - ESPIPE

\* Device::ioctl: no built-in device overrides the default.
DevIoctl(kind, cmd, arg) == 0 - ENOTTY

\* Device::release: no built-in device overrides the default.
DevRelease(kind) == 0

(* --------------------------- Vfs: pure parts --------------------------- *)

\* Lookup with the search reversed: the last registration of path.
MutLookupLast(devs, path) ==
    LET m == {i \in 1..Len(devs) : devs[i][1] = path}
    IN  IF m = {} THEN 0 ELSE CHOOSE i \in m : \A j \in m : i >= j

\* Vfs::open, the lookup: index of the first registration of path, 0 if none.
Lookup(devs, path) ==
    LET m == {i \in 1..Len(devs) : devs[i][1] = path}
    IN  IF m = {} THEN 0 ELSE CHOOSE i \in m : \A j \in m : i <= j

\* Vfs::open, first loop: the lowest Empty slot in start..MAX_FDS-1.
ScanUp(tbl, start) ==
    LET e == {idx \in start..(MAX_FDS - 1) : ~Bound(tbl, idx)}
    IN  IF e = {} THEN NoFd ELSE CHOOSE i \in e : \A j \in e : i <= j

\* ScanWrap with the wrapped scan starting at slot 0 instead of slot 3.
MutScanWrapFromZero(tbl, start) ==
    LET e == {idx \in 0..(Min(start, MAX_FDS) - 1) : ~Bound(tbl, idx)}
    IN  IF e = {} THEN NoFd ELSE CHOOSE i \in e : \A j \in e : i <= j

\* ScanWrap with the wrapped scan left out.
MutScanWrapNone(tbl, start) == NoFd

\* Vfs::open, second loop: the lowest Empty slot in 3..min(start, MAX_FDS)-1.
ScanWrap(tbl, start) ==
    LET e == {idx \in FIRST_FD..(Min(start, MAX_FDS) - 1) : ~Bound(tbl, idx)}
    IN  IF e = {} THEN NoFd ELSE CHOOSE i \in e : \A j \in e : i <= j

\* FindFd taking the hint's slot without looking at the table.
MutFindFdHint(tbl, nfd) ==
    IF Max(nfd, FIRST_FD) < MAX_FDS THEN Max(nfd, FIRST_FD) ELSE FIRST_FD

\* Vfs::open, the allocation: the slot found, or NoFd.
FindFd(tbl, nfd) ==
    LET start == Max(nfd, FIRST_FD)
        found == ScanUp(tbl, start)
    IN  IF found = NoFd THEN ScanWrap(tbl, start) ELSE found

\* NextHint without the wrap to 3 after the last slot.
MutNextHintNoWrap(fd) == fd + 1

\* Vfs::open, the new hint after allocating fd.
NextHint(fd) == IF fd + 1 < MAX_FDS THEN fd + 1 ELSE FIRST_FD

\* OpenResult with the table scanned before the path is looked up.
MutOpenResultScanFirst(tbl, nfd, devs, path) ==
    IF FindFd(tbl, nfd) = NoFd THEN 0 - EMFILE
    ELSE IF Lookup(devs, path) = 0 THEN 0 - ENOENT
    ELSE FindFd(tbl, nfd)

\* Vfs::open, its result: the descriptor, or the negated errno.
OpenResult(tbl, nfd, devs, path) ==
    IF Lookup(devs, path) = 0 THEN 0 - ENOENT
    ELSE IF FindFd(tbl, nfd) = NoFd THEN 0 - EMFILE
    ELSE FindFd(tbl, nfd)

\* ReadResult with the table indexed from the first allocatable descriptor:
\* slot fd - 3 instead of slot fd for fd >= 3.
MutReadResultShifted(tbl, fd, buf, count) ==
    LET at == IF fd >= FIRST_FD THEN fd - FIRST_FD ELSE fd
    IN  IF ~InRange(fd) THEN [ret |-> 0 - EBADF, call |-> NoCall]
        ELSE IF count # 0 /\ buf = 0 THEN [ret |-> 0 - EFAULT, call |-> NoCall]
        ELSE IF Bound(tbl, at)
             THEN [ret  |-> DevRead(tbl[at].kind, buf, count),
                   call |-> [inst |-> tbl[at].id, meth |-> "read",
                             args |-> <<buf, count>>]]
             ELSE [ret |-> 0 - EBADF, call |-> NoCall]

\* Vfs::read: the result and the device method invoked.
ReadResult(tbl, fd, buf, count) ==
    IF ~InRange(fd) THEN [ret |-> 0 - EBADF, call |-> NoCall]
    ELSE IF count # 0 /\ buf = 0 THEN [ret |-> 0 - EFAULT, call |-> NoCall]
    ELSE IF Bound(tbl, fd)
         THEN [ret  |-> DevRead(tbl[fd].kind, buf, count),
               call |-> [inst |-> tbl[fd].id, meth |-> "read",
                         args |-> <<buf, count>>]]
         ELSE [ret |-> 0 - EBADF, call |-> NoCall]

\* Vfs::read: the bytes stored at buf, by the device if it was invoked.
ReadStored(tbl, fd, buf, count) ==
    IF ReadResult(tbl, fd, buf, count).call.meth = "read"
    THEN DevStored(tbl[fd].kind, buf, count)
    ELSE <<>>

\* Vfs::write: the result and the device method invoked.
WriteResult(tbl, fd, buf, count) ==
    IF ~InRange(fd) THEN [ret |-> 0 - EBADF, call |-> NoCall]
    ELSE IF count # 0 /\ buf = 0 THEN [ret |-> 0 - EFAULT, call |-> NoCall]
    ELSE IF Bound(tbl, fd)
         THEN [ret  |-> DevWrite(tbl[fd].kind, buf, count),
               call |-> [inst |-> tbl[fd].id, meth |-> "write",
                         args |-> <<buf, count>>]]
         ELSE [ret |-> 0 - EBADF, call |-> NoCall]

\* Vfs::lseek: the result and the device method invoked.
LseekResult(tbl, fd, offset, whence) ==
    IF ~InRange(fd) THEN [ret |-> 0 - EBADF, call |-> NoCall]
    ELSE IF Bound(tbl, fd)
         THEN [ret  |-> DevSeek(tbl[fd].kind, offset, whence),
               call |-> [inst |-> tbl[fd].id, meth |-> "seek",
                         args |-> <<offset, whence>>]]
         ELSE [ret |-> 0 - EBADF, call |-> NoCall]

\* Vfs::ioctl: the result and the device method invoked.
IoctlResult(tbl, fd, request, raw_arg) ==
    IF ~InRange(fd) THEN [ret |-> 0 - EBADF, call |-> NoCall]
    ELSE IF Bound(tbl, fd)
         THEN [ret  |-> DevIoctl(tbl[fd].kind, from_raw(Word(request)), raw_arg),
               call |-> [inst |-> tbl[fd].id, meth |-> "ioctl",
                         args |-> <<from_raw(Word(request)), raw_arg>>]]
         ELSE [ret |-> 0 - EBADF, call |-> NoCall]

\* Vfs::close: the result and the device method invoked.
CloseResult(tbl, fd) ==
    IF ~InRange(fd) THEN [ret |-> 0 - EBADF, call |-> NoCall]
    ELSE IF Bound(tbl, fd)
         THEN [ret  |-> DevRelease(tbl[fd].kind),
               call |-> [inst |-> tbl[fd].id, meth |-> "release",
                         args |-> <<>>]]
         ELSE [ret |-> 0 - EBADF, call |-> NoCall]

\* CloseTable with the entry borrowed (as_mut) instead of taken: the slot
\* stays Bound.
MutCloseTableKeep(tbl, fd) == tbl

\* CloseTable that empties the whole table.
MutCloseTableAll(tbl, fd) ==
    IF InRange(fd) THEN [s \in Slots |-> NoEntry] ELSE tbl

\* Vfs::close: the table after fd_table[fd].take().
CloseTable(tbl, fd) ==
    IF InRange(fd) THEN [tbl EXCEPT ![fd] = NoEntry] ELSE tbl

\* FstatResult with the buffer tested before the descriptor.
MutFstatResultNullFirst(fd, statbuf) ==
    IF statbuf = 0 THEN 0 - EFAULT
    ELSE IF ~InRange(fd) THEN 0 - EBADF
    ELSE 0 - ENOSYS

\* Vfs::fstat.
FstatResult(fd, statbuf) ==
    IF ~InRange(fd) THEN 0 - EBADF
    ELSE IF statbuf = 0 THEN 0 - EFAULT
    ELSE 0 - ENOSYS

\* Vfs::register_fd: its result.
RegisterFdResult(fd) == IF ~InRange(fd) THEN 0 - EINVAL ELSE 0

\* Vfs::register_fd: the table after binding entry into slot fd.
RegisterFdTable(tbl, fd, entry) ==
    IF InRange(fd) THEN [tbl EXCEPT ![fd] = entry] ELSE tbl

\* Vfs::register_device: the registry after the push.
RegisterDeviceList(devs, path, factory) == Append(devs, <<path, factory>>)

(* ------------------------------ history -------------------------------- *)

\* The name of a device instance newly boxed for slot fd by open
\* (factory.create()) or by the caller of register_fd: the slot that owns it,
\* what created it, and a mark that tells it from the instance it replaces.
\* Names tell apart the instances that are alive, and an instance from the
\* one dropped for it.
NewInst(tbl, fd, by) ==
    <<fd, by, IF Bound(tbl, fd) /\ tbl[fd].id[2] = by
              THEN 1 - tbl[fd].id[3] ELSE 0>>

\* The record of the VFS call a step made.
Called(op, fd, path, kind, a1, a2, ret) ==
    [op |-> op, fd |-> fd, path |-> path, kind |-> kind,
     a1 |-> a1, a2 |-> a2, ret |-> ret]

(* ------------------------------ actions -------------------------------- *)

Init ==
    /\ fd_table = [fd \in Slots |-> NoEntry]
    /\ next_fd = FIRST_FD
    /\ devices = <<>>
    /\ opened = [fd \in Slots |-> NoInst]
    /\ last = Called("new", NoFd, "", "", 0, 0, 0)
    /\ call = NoCall
    /\ stored = <<>>
    /\ frames = NewFrames
    /\ cell = NoCell

register_fd(fd, kind) ==
    /\ fd_table' = RegisterFdTable(fd_table, fd,
                        IF InRange(fd)
                        THEN [id   |-> NewInst(fd_table, fd, "register_fd"),
                              kind |-> kind]
                        ELSE NoEntry)
    /\ UNCHANGED <<frames, cell>>
    /\ last' = Called("register_fd", fd, "", kind, 0, 0, RegisterFdResult(fd))
    /\ call' = NoCall
    /\ stored' = <<>>
    /\ UNCHANGED <<next_fd, devices, opened>>

register_device(path, factory) ==
    /\ Len(devices) < MaxDevices
    /\ devices' = RegisterDeviceList(devices, path, factory)
    /\ UNCHANGED <<frames, cell>>
    /\ last' = Called("register_device", NoFd, path, factory, 0, 0, 0)
    /\ call' = NoCall
    /\ stored' = <<>>
    /\ UNCHANGED <<fd_table, next_fd, opened>>

open(path) ==
    LET r == OpenResult(fd_table, next_fd, devices, path)
        f == Lookup(devices, path)
    IN  /\ UNCHANGED <<frames, cell>>
        /\ last' = Called("open", NoFd, path, "", 0, 0, r)
        /\ stored' = <<>>
        /\ IF r < 0
           THEN /\ call' = NoCall
                /\ UNCHANGED <<fd_table, next_fd, devices, opened>>
           ELSE LET id == NewInst(fd_table, r, "open")
                IN  /\ next_fd' = NextHint(r)
                    /\ call' = [inst |-> id, meth |-> "create",
                                args |-> <<f>>]
                    /\ fd_table' = [fd_table EXCEPT
                                      ![r] = [id |-> id, kind |-> devices[f][2]]]
                    /\ opened' = [opened EXCEPT ![r] = id]
                    /\ UNCHANGED devices

read(fd, buf, count) ==
    LET r == ReadResult(fd_table, fd, buf, count)
    IN  /\ UNCHANGED <<frames, cell>>
        /\ last' = Called("read", fd, "", "", buf, count, r.ret)
        /\ call' = r.call
        /\ stored' = ReadStored(fd_table, fd, buf, count)
        /\ UNCHANGED <<fd_table, next_fd, devices, opened>>

write(fd, buf, count) ==
    LET r == WriteResult(fd_table, fd, buf, count)
    IN  /\ UNCHANGED <<frames, cell>>
        /\ last' = Called("write", fd, "", "", buf, count, r.ret)
        /\ call' = r.call
        /\ stored' = <<>>
        /\ UNCHANGED <<fd_table, next_fd, devices, opened>>

\* lseek with the entry moved out of its slot (take) instead of borrowed
\* (as_mut).
MutLseekTake(fd, offset, whence) ==
    LET r == LseekResult(fd_table, fd, offset, whence)
    IN  /\ UNCHANGED <<frames, cell>>
        /\ last' = Called("lseek", fd, "", "", offset, whence, r.ret)
        /\ call' = r.call
        /\ stored' = <<>>
        /\ fd_table' = CloseTable(fd_table, fd)
        /\ UNCHANGED <<next_fd, devices, opened>>

lseek(fd, offset, whence) ==
    LET r == LseekResult(fd_table, fd, offset, whence)
    IN  /\ UNCHANGED <<frames, cell>>
        /\ last' = Called("lseek", fd, "", "", offset, whence, r.ret)
        /\ call' = r.call
        /\ stored' = <<>>
        /\ UNCHANGED <<fd_table, next_fd, devices, opened>>

ioctl(fd, request, raw_arg) ==
    LET r == IoctlResult(fd_table, fd, request, raw_arg)
    IN  /\ UNCHANGED <<frames, cell>>
        /\ last' = Called("ioctl", fd, "", "", request, raw_arg, r.ret)
        /\ call' = r.call
        /\ stored' = <<>>
        /\ UNCHANGED <<fd_table, next_fd, devices, opened>>

close(fd) ==
    LET r == CloseResult(fd_table, fd)
    IN  /\ UNCHANGED <<frames, cell>>
        /\ last' = Called("close", fd, "", "", 0, 0, r.ret)
        /\ call' = r.call
        /\ stored' = <<>>
        /\ fd_table' = CloseTable(fd_table, fd)
        /\ opened' = IF r.call.meth = "release"
                     THEN [opened EXCEPT ![fd] = NoInst] ELSE opened
        /\ UNCHANGED <<next_fd, devices>>

fstat(fd, statbuf) ==
    /\ UNCHANGED <<frames, cell>>
    /\ last' = Called("fstat", fd, "", "", statbuf, 0, FstatResult(fd, statbuf))
    /\ call' = NoCall
    /\ stored' = <<>>
    /\ UNCHANGED <<fd_table, next_fd, devices, opened>>

Next ==
    \/ \E fd \in RegFds, kind \in ConsoleKinds : register_fd(fd, kind)
    \/ \E reg \in Registrations : register_device(reg[1], reg[2])
    \/ \E path \in Paths : open(path)
    \/ \E fd \in IoFds, buf \in Bufs, count \in Counts : read(fd, buf, count)
    \/ \E fd \in IoFds, buf \in Bufs, count \in Counts : write(fd, buf, count)
    \/ \E fd \in IoFds, offset \in Offsets, whence \in Whences :
          lseek(fd, offset, whence)
    \/ \E fd \in IoFds, request \in Requests, raw_arg \in IoctlArgs :
          ioctl(fd, request, raw_arg)
    \/ \E fd \in FdArgs : close(fd)
    \/ \E fd \in IoFds, statbuf \in Bufs : fstat(fd, statbuf)

Spec == Init /\ [][Next]_vars

(* ------------------------------ claims --------------------------------- *)

\* The descriptors open may allocate.
Allocatable == FIRST_FD..(MAX_FDS - 1)
\* Every allocatable slot is Bound.
Full(tbl) == \A fd \in Allocatable : Bound(tbl, fd)
\* The operations that are forwarded to a device.
IoOps == {"read", "write", "lseek", "ioctl"}
\* The first registration of path in devs, by position; 0 if there is none.
FirstReg(devs, path) ==
    IF \A i \in 1..Len(devs) : devs[i][1] # path THEN 0
    ELSE CHOOSE i \in 1..Len(devs) :
            /\ devs[i][1] = path
            /\ \A j \in 1..(i - 1) : devs[j][1] # path

\* C1: every successful open returns a descriptor in 3..MAX_FDS-1; it never
\* returns 0, 1 or 2, whatever the state of slots 0..2.
C1_OpenReturnsAllocatable ==
    (last.op = "open" /\ last.ret >= 0) => last.ret \in Allocatable

\* C1 witness: an open just refilled slot 3, the only Empty allocatable slot,
\* while the reserved slots 0..2 were all Empty.
C1_Witness ==
    /\ last.op = "open" /\ last.ret = FIRST_FD
    /\ next_fd = FIRST_FD + 1
    /\ Full(fd_table)
    /\ \A fd \in 0..(FIRST_FD - 1) : ~Bound(fd_table, fd)

\* C2: open of a registered path succeeds whenever some slot in 3..MAX_FDS-1
\* is Empty, whatever the hint and the occupied slots, and fails with EMFILE
\* only when all of them are Bound.
C2_OpenSucceedsUnlessFull ==
    [][(last'.op = "open" /\ FirstReg(devices, last'.path) # 0)
        => IF \E fd \in Allocatable : ~Bound(fd_table, fd)
           THEN last'.ret \in Allocatable
           ELSE last'.ret = 0 - EMFILE]_vars

\* C2 witness: an open succeeded with the last slot, leaving the table full
\* and a reserved slot Bound.
C2_Witness ==
    /\ last.op = "open" /\ last.ret = MAX_FDS - 1
    /\ Full(fd_table)
    /\ Bound(fd_table, 0)

\* C3: with all allocatable slots Bound, open fails with EMFILE; closing one
\* of them then leaves exactly that slot Empty, the next open returns it and
\* fills the table again (so the open after that fails with EMFILE).
C3_FullCloseReopen ==
    [][/\ (Full(fd_table) /\ last'.op = "open"
            /\ FirstReg(devices, last'.path) # 0)
          => (last'.ret = 0 - EMFILE /\ fd_table' = fd_table)
       /\ (Full(fd_table) /\ last'.op = "close" /\ last'.fd \in Allocatable)
          => /\ last'.ret = 0
             /\ \A fd \in Allocatable :
                    Bound(fd_table', fd) <=> fd # last'.fd
       /\ \A free \in Allocatable :
            ((\A fd \in Allocatable : Bound(fd_table, fd) <=> fd # free)
                /\ last'.op = "open" /\ FirstReg(devices, last'.path) # 0)
            => (last'.ret = free /\ Full(fd_table'))]_vars

\* C3 witness: the table is full again after an open returned a descriptor
\* in the middle of the allocatable range, which only a close had freed.
C3_Witness ==
    /\ last.op = "open" /\ last.ret = FIRST_FD + 1
    /\ next_fd = FIRST_FD + 2
    /\ Full(fd_table)

\* C4: the device an open created has release() invoked exactly once, by the
\* first close of the returned descriptor, which returns release()'s result,
\* and by no other call.
C4_ReleasedOnceByFirstClose ==
    [][/\ (last'.op = "close" /\ InRange(last'.fd)
            /\ opened[last'.fd] # NoInst)
          => /\ call' = [inst |-> opened[last'.fd], meth |-> "release",
                         args |-> <<>>]
             /\ last'.ret = 0
       /\ \A fd \in Slots :
            (opened[fd] # NoInst /\ call'.meth = "release"
                /\ call'.inst = opened[fd])
            => (last'.op = "close" /\ last'.fd = fd)]_vars

\* C5: register_fd on a Bound slot invokes release() on the device it
\* replaces.
C5_OverwriteReleases ==
    [][(last'.op = "register_fd" /\ InRange(last'.fd)
            /\ Bound(fd_table, last'.fd))
        => call' = [inst |-> fd_table[last'.fd].id, meth |-> "release",
                    args |-> <<>>]]_vars

\* C6 as stated: a slot goes from Empty to Bound only through the open that
\* returns it, and a Bound slot changes only by close emptying it.
C6_OnlyOpenAndClose ==
    [][\A fd \in Slots :
        /\ (~Bound(fd_table, fd) /\ Bound(fd_table', fd))
           => (last'.op = "open" /\ last'.ret = fd)
        /\ (Bound(fd_table, fd) /\ fd_table'[fd] # fd_table[fd])
           => (last'.op = "close" /\ last'.fd = fd
                /\ ~Bound(fd_table', fd))]_vars

\* C6 amended: a slot goes from Empty to Bound only through the open that
\* returns it or register_fd on it, and a Bound slot changes only by close
\* emptying it or register_fd on it replacing its device; every other call,
\* and every call on another descriptor, leaves the slot as it is.
C6_SlotTransitions ==
    [][\A fd \in Slots :
        /\ (~Bound(fd_table, fd) /\ Bound(fd_table', fd))
           => \/ last'.op = "open" /\ last'.ret = fd
              \/ last'.op = "register_fd" /\ last'.fd = fd
        /\ (Bound(fd_table, fd) /\ fd_table'[fd] # fd_table[fd])
           => \/ last'.op = "close" /\ last'.fd = fd
                    /\ ~Bound(fd_table', fd)
              \/ last'.op = "register_fd" /\ last'.fd = fd
                    /\ Bound(fd_table', fd)]_vars

\* C6 witness: register_fd replaced the device an open had bound to slot 3.
C6_Witness ==
    /\ last.op = "register_fd" /\ last.fd = FIRST_FD
    /\ opened[FIRST_FD] # NoInst
    /\ fd_table[FIRST_FD].id # opened[FIRST_FD]

\* C7, for the call that follows the close: after close(fd) succeeded, a
\* read, write, lseek, ioctl or close on fd fails with EBADF whatever its
\* other arguments, and invokes no device method.
C7_ClosedDescriptorIsBad ==
    [][(last.op = "close" /\ call.meth = "release"
            /\ last'.op \in IoOps \cup {"close"} /\ last'.fd = last.fd)
        => (last'.ret = 0 - EBADF /\ call' = NoCall)]_vars

\* The device method a forwarded operation invokes, and the arguments the
\* device must receive for the operation's arguments.
MethOf(op) == IF op = "lseek" THEN "seek" ELSE op
ArgsOf(c) == IF c.op = "ioctl" THEN <<from_raw(Word(c.a1)), c.a2>>
             ELSE <<c.a1, c.a2>>
\* The operation passes the VFS's validation of its arguments.
Valid(c) == c.op \in {"read", "write"} => ~(c.a2 # 0 /\ c.a1 = 0)

\* C8 as stated: from open returning fd until close(fd), a valid read, write,
\* lseek or ioctl on fd invokes the method of the instance that open created.
C8_RoutedToOpenedInstance ==
    (last.op \in IoOps /\ InRange(last.fd) /\ opened[last.fd] # NoInst
        /\ Valid(last))
    => call = [inst |-> opened[last.fd], meth |-> MethOf(last.op),
               args |-> ArgsOf(last)]

\* Slot fd still holds the instance the latest open returning fd created: no
\* close(fd) and no register_fd(fd, ..) came since.
StillOpen(fd) == Bound(fd_table, fd) /\ fd_table[fd].id = opened[fd]

\* C8 amended: from open returning fd until the next close(fd) or
\* register_fd(fd, ..), a valid read, write, lseek or ioctl on fd invokes the
\* corresponding method of exactly the instance that open created, with the
\* same arguments and ioctl's request decoded by from_raw, and reaches the
\* instance of no other descriptor; each open creates an instance of its own,
\* by create() of the factory it looked up.
C8_RoutedToBoundInstance ==
    /\ (last.op \in IoOps /\ InRange(last.fd) /\ StillOpen(last.fd)
            /\ Valid(last))
       => /\ call = [inst |-> opened[last.fd], meth |-> MethOf(last.op),
                     args |-> ArgsOf(last)]
          /\ \A fd \in Slots \ {last.fd} : fd_table[fd].id # call.inst
    /\ (last.op = "open" /\ last.ret >= 0)
       => /\ call = [inst |-> opened[last.ret], meth |-> "create",
                     args |-> <<FirstReg(devices, last.path)>>]
          /\ StillOpen(last.ret)
          /\ \A fd \in Slots \ {last.ret} : fd_table[fd].id # call.inst

\* C8 witness: a read on descriptor 3 reached the instance its open created
\* while slot 0 held another device.
C8_Witness ==
    /\ last.op = "read" /\ last.fd = FIRST_FD /\ last.a2 # 0
    /\ StillOpen(FIRST_FD)
    /\ call.inst = opened[FIRST_FD]
    /\ Bound(fd_table, 0)

\* C9: open instantiates the device from the first factory registered under
\* the path; register_device always succeeds and appends, so it never changes
\* the factory open uses for a path already registered, and no call removes
\* or reorders a registration.
C9_FirstRegisteredWins ==
    [][/\ (last'.op = "open" /\ last'.ret >= 0)
          => /\ call'.args = <<FirstReg(devices, last'.path)>>
             /\ fd_table'[last'.ret].kind
                    = devices[FirstReg(devices, last'.path)][2]
       /\ (last'.op = "register_device")
          => /\ last'.ret = 0
             /\ devices' = Append(devices, <<last'.path, last'.kind>>)
       /\ \A i \in 1..Len(devices) :
            Len(devices') >= i /\ devices'[i] = devices[i]
       /\ \A p \in Paths :
            FirstReg(devices, p) # 0
            => FirstReg(devices', p) = FirstReg(devices, p)]_vars

\* C9 witness: two different factories are registered under one path, and an
\* open bound a device of the first.
C9_Witness ==
    /\ last.op = "open" /\ last.ret >= 0
    /\ Len(devices) = 2
    /\ devices[1][1] = devices[2][1] /\ devices[1][2] # devices[2][2]
    /\ fd_table[last.ret].kind = devices[1][2]

\* C10: open of a path that equals no registered path fails with ENOENT and
\* changes nothing: no slot, not the hint, not the registry, and no create()
\* is invoked; also when the table is full.
C10_UnregisteredOpen ==
    [][(last'.op = "open"
            /\ \A i \in 1..Len(devices) : devices[i][1] # last'.path)
        => /\ last'.ret = 0 - ENOENT
           /\ call' = NoCall
           /\ UNCHANGED <<fd_table, next_fd, devices, opened>>]_vars

\* C10 witness: an open failed with ENOENT while the table was full and a
\* factory was registered under another path.
C10_Witness ==
    /\ last.op = "open" /\ last.ret = 0 - ENOENT
    /\ Full(fd_table)
    /\ Len(devices) > 0

\* C11: read and write validate the descriptor before the buffer: on a
\* descriptor that is out of range or names an Empty slot they fail with
\* EBADF for every buf and count, so EFAULT comes only from a Bound
\* descriptor.
C11_DescriptorBeforeBuffer ==
    (last.op \in {"read", "write"}
        /\ (~InRange(last.fd) \/ ~Bound(fd_table, last.fd)))
    => last.ret = 0 - EBADF

(* ------------- the dispatcher over every built-in device --------------- *)

\* The bring-up registry: one factory per built-in driver.
BuiltinDevices ==
    <<<<"/dev/null", "null">>, <<"/dev/zero", "zero">>,
      <<"/dev/urandom", "urandom">>>>
\* The console entries bring-up installs with register_fd.
BuiltinConsoles == {"stdin", "stdout"}
\* Descriptors and lengths of the transfers.
DevFds == {0, FIRST_FD}
DevCounts == {0, 2, 16}

\* The VFS after bring-up registered the built-in drivers.
DevInit ==
    /\ fd_table = [fd \in Slots |-> NoEntry]
    /\ next_fd = FIRST_FD
    /\ devices = BuiltinDevices
    /\ opened = [fd \in Slots |-> NoInst]
    /\ last = Called("new", NoFd, "", "", 0, 0, 0)
    /\ call = NoCall
    /\ stored = <<>>
    /\ frames = NewFrames
    /\ cell = NoCell

DevNext ==
    \/ \E kind \in BuiltinConsoles : register_fd(0, kind)
    \/ \E i \in 1..Len(BuiltinDevices) : open(BuiltinDevices[i][1])
    \/ \E fd \in DevFds, buf \in Bufs, count \in DevCounts :
            read(fd, buf, count)
    \/ \E fd \in DevFds, buf \in Bufs, count \in DevCounts :
            write(fd, buf, count)

DevSpec == DevInit /\ [][DevNext]_vars

\* C12 as stated: on a descriptor bound to a built-in device, read and write
\* with count = 0 return 0 even when buf is null, and read and write with
\* count # 0 and a null buf fail with EFAULT without invoking the device.
C12_ZeroLengthAndNullBuffer ==
    (last.op \in {"read", "write"} /\ InRange(last.fd)
        /\ Bound(fd_table, last.fd))
    => /\ last.a2 = 0 => last.ret = 0
       /\ (last.a2 # 0 /\ last.a1 = 0)
          => (last.ret = 0 - EFAULT /\ call = NoCall)

\* The transfers a built-in device implements: all but write on urandom
\* (the trait's default) and write on the console's input end.
Implements(kind, op) == ~(op = "write" /\ kind \in {"urandom", "stdin"})

\* C12 amended: on a descriptor bound to a built-in device, read and write
\* with count = 0 are forwarded to the device even when buf is null and never
\* fail with EFAULT: they return 0 where the device implements the transfer
\* and EBADF where it does not (write on urandom and on the console's input
\* end); read and write with count # 0 and a null buf fail with EFAULT
\* without invoking the device.
C12_ZeroLengthNeverFaults ==
    (last.op \in {"read", "write"} /\ InRange(last.fd)
        /\ Bound(fd_table, last.fd))
    => /\ last.a2 = 0
          => /\ call.inst = fd_table[last.fd].id /\ call.meth = last.op
             /\ last.ret = IF Implements(fd_table[last.fd].kind, last.op)
                           THEN 0 ELSE 0 - EBADF
       /\ (last.a2 # 0 /\ last.a1 = 0)
          => (last.ret = 0 - EFAULT /\ call = NoCall)

\* C12 witness: a zero-length write with a null buffer reached a urandom
\* device, which does not implement write.
C12_Witness ==
    /\ last.op = "write" /\ last.fd = FIRST_FD
    /\ last.a1 = 0 /\ last.a2 = 0
    /\ fd_table[FIRST_FD].kind = "urandom"
    /\ last.ret = 0 - EBADF

(* ------------------- the /dev/zero scenario, end to end ---------------- *)

\* The registry of the scenario: the zero-device factory at "/dev/zero".
ZeroOnly == <<<<"/dev/zero", "zero">>>>
E2eFds == {FIRST_FD, FIRST_FD + 1}

E2eNext ==
    \/ register_device(ZeroOnly[1][1], ZeroOnly[1][2])
    \/ open(ZeroOnly[1][1])
    \/ \E fd \in E2eFds, buf \in Bufs, count \in DevCounts :
            read(fd, buf, count)
    \/ \E fd \in E2eFds, buf \in Bufs, count \in DevCounts :
            write(fd, buf, count)
    \/ \E fd \in E2eFds : close(fd)

E2eSpec == Init /\ [][E2eNext]_vars

\* C13: on a fresh VFS with the zero-device factory registered at
\* "/dev/zero", open returns 3; then read(3, buf, 16) stores 16 zero bytes at
\* buf and returns 16, write(3, buf, 16) returns 16 and stores nothing, and
\* close(3) returns 0 and leaves slot 3 Empty.
C13_DevZeroEndToEnd ==
    [][/\ (devices = ZeroOnly /\ next_fd = FIRST_FD
            /\ (\A fd \in Slots : ~Bound(fd_table, fd))
            /\ last'.op = "open" /\ last'.path = "/dev/zero")
          => (last'.ret = 3 /\ fd_table'[3].kind = "zero")
       /\ (Bound(fd_table, 3) /\ fd_table[3].kind = "zero" /\ last'.fd = 3)
          => /\ (last'.op = "read" /\ last'.a1 # 0 /\ last'.a2 = 16)
                => (last'.ret = 16 /\ stored' = [i \in 1..16 |-> 0])
             /\ (last'.op = "write" /\ last'.a1 # 0 /\ last'.a2 = 16)
                => (last'.ret = 16 /\ stored' = <<>>)
             /\ (last'.op = "close")
                => (last'.ret = 0 /\ ~Bound(fd_table', 3))]_vars

\* C13 witness: the first descriptor of the VFS, bound to the zero device,
\* was read with 16 bytes, which came back as zeros.
C13_Witness ==
    /\ devices = ZeroOnly /\ next_fd = FIRST_FD + 1
    /\ last.op = "read" /\ last.fd = 3 /\ last.ret = 16
    /\ Len(stored) = 16 /\ \A i \in 1..16 : stored[i] = 0

\* C14: fstat never succeeds and never changes state: it fails with EBADF for
\* an out-of-range fd, else with EFAULT for a null stat buffer, else with
\* ENOSYS; every slot, the hint and the registry stay as they are, no device
\* is invoked and nothing is stored in the buffer.
C14_FstatUnimplemented ==
    [][(last'.op = "fstat")
        => /\ last'.ret = IF last'.fd < 0 \/ last'.fd >= MAX_FDS
                          THEN 0 - EBADF
                          ELSE IF last'.a1 = 0 THEN 0 - EFAULT
                          ELSE 0 - ENOSYS
           /\ last'.ret < 0
           /\ call' = NoCall /\ stored' = <<>>
           /\ UNCHANGED <<fd_table, next_fd, devices, opened>>]_vars

\* C14 witness: fstat failed with ENOSYS on a Bound descriptor with a
\* non-null buffer.
C14_Witness ==
    /\ last.op = "fstat" /\ last.ret = 0 - ENOSYS
    /\ last.a1 # 0
    /\ InRange(last.fd) /\ Bound(fd_table, last.fd)

(* --------------------------- the ioctl codec --------------------------- *)

\* Field values of the raw words and of the commands the codec is applied to.
RawNrs == {0, 1, 255}
RawMagics == {0, 84, 255}
RawSizes == {0, 4, 16383}
RawDirs == 0..3
\* The bits of a usize at position 32 and above.
RawUppers == {0, 1}
RawWords ==
    {[hi |-> size + 16384 * d + 65536 * up, lo |-> nr + 256 * magic] :
        size \in RawSizes, d \in RawDirs, up \in RawUppers,
        nr \in RawNrs, magic \in RawMagics}
IoctlDirs == {"None", "Read", "Write", "ReadWrite"}
NewSizes == {0, 4, 16383, 16384, 32768, 81920}
U8s == {0, 1, 2, 3, 7}

\* No codec call was made yet.
NoValue == [none |-> TRUE]

CodecInit ==
    /\ fd_table = [fd \in Slots |-> NoEntry]
    /\ next_fd = FIRST_FD
    /\ devices = <<>>
    /\ opened = [fd \in Slots |-> NoInst]
    /\ last = Called("none", NoFd, "", "", NoValue, 0, NoValue)
    /\ call = NoCall
    /\ stored = <<>>
    /\ frames = NewFrames
    /\ cell = NoCell

\* IoctlCommand::from_raw(raw).
Decode(raw) ==
    /\ UNCHANGED <<frames, cell>>
    /\ last' = Called("IoctlCommand::from_raw", NoFd, "", "", raw, 0,
                      from_raw(raw))
    /\ UNCHANGED <<fd_table, next_fd, devices, opened, call, stored>>

\* IoctlCommand::new(dir, magic, nr, size).
Construct(dir, magic, nr, size) ==
    /\ UNCHANGED <<frames, cell>>
    /\ last' = Called("IoctlCommand::new", NoFd, "", "",
                      [dir |-> dir, magic |-> magic, nr |-> nr,
                       size |-> size],
                      0, new(dir, magic, nr, size))
    /\ UNCHANGED <<fd_table, next_fd, devices, opened, call, stored>>

\* cmd.to_raw() of the command the last call returned.
Encode ==
    /\ last.op \in {"IoctlCommand::from_raw", "IoctlCommand::new"}
    /\ last.ret # Panic
    /\ UNCHANGED <<frames, cell>>
    /\ last' = Called("IoctlCommand::to_raw", NoFd, "", "", last.ret, 0,
                      to_raw(last.ret))
    /\ UNCHANGED <<fd_table, next_fd, devices, opened, call, stored>>

\* IoctlCommand::from_raw of the word to_raw returned.
DecodeEncoded ==
    /\ last.op = "IoctlCommand::to_raw"
    /\ UNCHANGED <<frames, cell>>
    /\ last' = Called("IoctlCommand::from_raw", NoFd, "", "", last.ret, 0,
                      from_raw(last.ret))
    /\ UNCHANGED <<fd_table, next_fd, devices, opened, call, stored>>

\* IoctlDir::from_u8(val).
DirFromU8(val) ==
    /\ UNCHANGED <<frames, cell>>
    /\ last' = Called("IoctlDir::from_u8", NoFd, "", "", [val |-> val], 0,
                      [dir |-> from_u8(val)])
    /\ UNCHANGED <<fd_table, next_fd, devices, opened, call, stored>>

CodecNext ==
    \/ \E raw \in RawWords : Decode(raw)
    \/ \E dir \in IoctlDirs, magic \in RawMagics, nr \in RawNrs,
          size \in NewSizes : Construct(dir, magic, nr, size)
    \/ Encode
    \/ DecodeEncoded
    \/ \E val \in U8s : DirFromU8(val)

CodecSpec == CodecInit /\ [][CodecNext]_vars

\* C15: from_raw and to_raw are inverses: to_raw of the command decoded from
\* a 32-bit word is that word, and from_raw of the word encoded from a
\* command that new built (or from_raw decoded) is that command.
C15_CodecRoundTrip ==
    [][/\ (last.op = "IoctlCommand::from_raw" /\ last.a1.hi < 65536
            /\ last'.op = "IoctlCommand::to_raw")
          => last'.ret = last.a1
       /\ (last.op = "IoctlCommand::to_raw"
            /\ last'.op = "IoctlCommand::from_raw" /\ last'.a1 = last.ret)
          => last'.ret = last.a1]_vars

\* C15 witness: a Read command of size 16383 was encoded, to a word with bit
\* 31 set and bit 30 clear.
C15_Witness ==
    /\ last.op = "IoctlCommand::to_raw"
    /\ last.a1.dir = "Read" /\ last.a1.size = 16383
    /\ last.ret.hi = 2 * 16384 + 16383

\* C16: new panics for every size > 16383 and for no size <= 16383; a command
\* built with size 16383 keeps that size and its direction through to_raw
\* followed by from_raw, and to_raw leaves the direction bits [30,32) holding
\* the direction alone.
C16_SizeBoundary ==
    [][/\ (last'.op = "IoctlCommand::new")
          => /\ (last'.ret = Panic) <=> (last'.a1.size > 16383)
             /\ (last'.ret # Panic)
                => last'.ret = [dir |-> last'.a1.dir, size |-> last'.a1.size,
                                magic |-> last'.a1.magic, nr |-> last'.a1.nr]
       /\ (last.op = "IoctlCommand::new" /\ last.a1.size = 16383
            /\ last'.op = "IoctlCommand::to_raw")
          => /\ last'.ret.hi % 16384 = 16383
             /\ last'.ret.hi \div 16384
                    = CASE last.a1.dir = "None"      -> 0
                        [] last.a1.dir = "Write"     -> 1
                        [] last.a1.dir = "Read"      -> 2
                        [] last.a1.dir = "ReadWrite" -> 3
       /\ (last.op = "IoctlCommand::to_raw" /\ last.a1.size = 16383
            /\ last'.op = "IoctlCommand::from_raw" /\ last'.a1 = last.ret)
          => (last'.ret.size = 16383 /\ last'.ret.dir = last.a1.dir)]_vars

\* C16 witness: a command with size 16383 and no direction came back from
\* from_raw of its encoding, a word with bits [30,32) clear.
C16_Witness ==
    /\ last.op = "IoctlCommand::from_raw"
    /\ last.a1.hi = 16383
    /\ last.ret.size = 16383 /\ last.ret.dir = "None"

\* C17: from_raw yields nr = bits [0,8), magic = bits [8,16), size = bits
\* [16,30) and the direction from bits [30,32) with 0 -> None, 1 -> Write,
\* 2 -> Read, 3 -> ReadWrite; bits at position 32 and above change nothing.
C17_FromRawFields ==
    (last.op = "IoctlCommand::from_raw")
    => LET low32 == last.a1.hi % 65536
       IN  /\ last.ret.nr = last.a1.lo % 256
           /\ last.ret.magic = last.a1.lo \div 256
           /\ last.ret.size = low32 % 16384
           /\ last.ret.dir = CASE low32 \div 16384 = 0 -> "None"
                               [] low32 \div 16384 = 1 -> "Write"
                               [] low32 \div 16384 = 2 -> "Read"
                               [] low32 \div 16384 = 3 -> "ReadWrite"

\* C17 witness: a word with bit 32 set, direction bits 10 and every size bit
\* set was decoded as a Read command of size 16383.
C17_Witness ==
    /\ last.op = "IoctlCommand::from_raw"
    /\ last.a1.hi = 65536 + 2 * 16384 + 16383
    /\ last.ret.dir = "Read" /\ last.ret.size = 16383

\* C18: the codec uses one direction mapping: for every 2-bit value v,
\* from_u8(v) is the direction from_raw decodes from a word whose bits
\* [30,32) are v, and to_raw of that direction puts v back in bits [30,32).
C18_OneDirectionMapping ==
    (last.op = "IoctlDir::from_u8" /\ last.a1.val \in 0..3)
    => /\ last.ret.dir = from_raw([hi |-> 16384 * last.a1.val, lo |-> 0]).dir
       /\ to_raw([dir |-> last.ret.dir, size |-> 0, magic |-> 0,
                  nr |-> 0]).hi \div 16384 = last.a1.val

(* ------------------ zeroos-arch-riscv: the trap frame ------------------ *)

\* A frame captured at trap entry, every register holding its own value.
Captured ==
    [reg \in FrameRegs |->
        CASE reg = "a0" -> 10 [] reg = "a1" -> 11 [] reg = "a2" -> 12
          [] reg = "a3" -> 13 [] reg = "a4" -> 14 [] reg = "a5" -> 15
          [] reg = "a7" -> 17 [] reg = "sp" -> 18 [] reg = "tp" -> 19
          [] reg = "mepc" -> 20 [] reg = "mcause" -> 21 [] reg = "mtval" -> 22]
\* The frames the operations start from, and the values they are given.
DstFrames == {TrapFrame_new, Captured}
SrcFrames == {TrapFrame_new, Captured, [Captured EXCEPT !.a0 = 99]}
TrapVals == {0, 5}
ArgIdxs == 0..8
FrameNames == {"dst", "src"}

\* trap_frame_clone: the destination after the byte-for-byte copy.
CloneFrame(dst, src) == src

\* trap_frame_init with the frame not zeroed first.
MutInitFrameNoZero(r, user_sp, user_tls, pc) ==
    [r EXCEPT !.sp = user_sp, !.tp = user_tls, !.mepc = pc, !.a0 = 0]

\* trap_frame_init: the frame it leaves.
InitFrame(r, user_sp, user_tls, pc) ==
    [TrapFrame_new EXCEPT !.sp = user_sp, !.tp = user_tls, !.mepc = pc,
                          !.a0 = 0]

\* SetReg storing through a freshly made frame instead of the one given.
MutSetRegFresh(r, reg, val) == [TrapFrame_new EXCEPT ![reg] = val]

\* trap_frame_set_retval / set_sp / set_tp / set_pc: the frame they leave.
SetReg(r, reg, val) == [r EXCEPT ![reg] = val]

\* trap_frame_get_arg with an out-of-range index clamped to the last
\* argument register.
MutGetArgClamped(r, idx) ==
    CASE idx = 0 -> r.a0 [] idx = 1 -> r.a1 [] idx = 2 -> r.a2
      [] idx = 3 -> r.a3 [] idx = 4 -> r.a4 [] OTHER -> r.a5

\* trap_frame_get_arg.
GetArg(r, idx) ==
    CASE idx = 0 -> r.a0 [] idx = 1 -> r.a1 [] idx = 2 -> r.a2
      [] idx = 3 -> r.a3 [] idx = 4 -> r.a4 [] idx = 5 -> r.a5
      [] OTHER -> 0

\* trap_frame_get_nr.
GetNr(r) == r.a7

\* trap_frame_get_pc / get_cause / get_fault_addr.
GetReg(r, reg) == r[reg]

\* The record of a trap-frame call: the frame it names, its other arguments
\* and what it returned.
TrapCalled(op, regs, args, ret) == Called(op, NoFd, regs, "", args, 0, ret)

TrapInit ==
    /\ fd_table = [fd \in Slots |-> NoEntry]
    /\ next_fd = FIRST_FD
    /\ devices = <<>>
    /\ opened = [fd \in Slots |-> NoInst]
    /\ last = TrapCalled("none", "", <<>>, 0)
    /\ call = NoCall
    /\ stored = <<>>
    /\ frames \in [dst : DstFrames, src : SrcFrames]
    /\ cell = NoCell

trap_frame_clone ==
    /\ frames' = [frames EXCEPT !.dst = CloneFrame(frames.dst, frames.src)]
    /\ last' = TrapCalled("trap_frame_clone", "dst", <<>>, 0)
    /\ UNCHANGED <<fd_table, next_fd, devices, opened, call, stored, cell>>

trap_frame_init(user_sp, user_tls, pc) ==
    /\ frames' = [frames EXCEPT
                    !.dst = InitFrame(frames.dst, user_sp, user_tls, pc)]
    /\ last' = TrapCalled("trap_frame_init", "dst", <<user_sp, user_tls, pc>>,
                          0)
    /\ UNCHANGED <<fd_table, next_fd, devices, opened, call, stored, cell>>

trap_frame_set_retval(val) ==
    /\ frames' = [frames EXCEPT !.dst = SetReg(frames.dst, "a0", val)]
    /\ last' = TrapCalled("trap_frame_set_retval", "dst", <<val>>, 0)
    /\ UNCHANGED <<fd_table, next_fd, devices, opened, call, stored, cell>>

trap_frame_set_sp(sp) ==
    /\ frames' = [frames EXCEPT !.dst = SetReg(frames.dst, "sp", sp)]
    /\ last' = TrapCalled("trap_frame_set_sp", "dst", <<sp>>, 0)
    /\ UNCHANGED <<fd_table, next_fd, devices, opened, call, stored, cell>>

trap_frame_set_tp(tp) ==
    /\ frames' = [frames EXCEPT !.dst = SetReg(frames.dst, "tp", tp)]
    /\ last' = TrapCalled("trap_frame_set_tp", "dst", <<tp>>, 0)
    /\ UNCHANGED <<fd_table, next_fd, devices, opened, call, stored, cell>>

trap_frame_set_pc(pc) ==
    /\ frames' = [frames EXCEPT !.dst = SetReg(frames.dst, "mepc", pc)]
    /\ last' = TrapCalled("trap_frame_set_pc", "dst", <<pc>>, 0)
    /\ UNCHANGED <<fd_table, next_fd, devices, opened, call, stored, cell>>

trap_frame_get_pc(regs) ==
    /\ last' = TrapCalled("trap_frame_get_pc", regs, <<>>,
                          GetReg(frames[regs], "mepc"))
    /\ UNCHANGED <<fd_table, next_fd, devices, opened, call, stored, frames, cell>>

trap_frame_get_nr(regs) ==
    /\ last' = TrapCalled("trap_frame_get_nr", regs, <<>>, GetNr(frames[regs]))
    /\ UNCHANGED <<fd_table, next_fd, devices, opened, call, stored, frames, cell>>

trap_frame_get_arg(regs, idx) ==
    /\ last' = TrapCalled("trap_frame_get_arg", regs, <<idx>>,
                          GetArg(frames[regs], idx))
    /\ UNCHANGED <<fd_table, next_fd, devices, opened, call, stored, frames, cell>>

trap_frame_get_cause(regs) ==
    /\ last' = TrapCalled("trap_frame_get_cause", regs, <<>>,
                          GetReg(frames[regs], "mcause"))
    /\ UNCHANGED <<fd_table, next_fd, devices, opened, call, stored, frames, cell>>

trap_frame_get_fault_addr(regs) ==
    /\ last' = TrapCalled("trap_frame_get_fault_addr", regs, <<>>,
                          GetReg(frames[regs], "mtval"))
    /\ UNCHANGED <<fd_table, next_fd, devices, opened, call, stored, frames, cell>>

TrapNext ==
    \/ trap_frame_clone
    \/ \E user_sp \in TrapVals, user_tls \in TrapVals, pc \in TrapVals :
          trap_frame_init(user_sp, user_tls, pc)
    \/ \E val \in TrapVals : trap_frame_set_retval(val)
    \/ \E sp \in TrapVals : trap_frame_set_sp(sp)
    \/ \E tp \in TrapVals : trap_frame_set_tp(tp)
    \/ \E pc \in TrapVals : trap_frame_set_pc(pc)
    \/ \E regs \in FrameNames : trap_frame_get_pc(regs)
    \/ \E regs \in FrameNames : trap_frame_get_nr(regs)
    \/ \E regs \in FrameNames, idx \in ArgIdxs : trap_frame_get_arg(regs, idx)
    \/ \E regs \in FrameNames : trap_frame_get_cause(regs)
    \/ \E regs \in FrameNames : trap_frame_get_fault_addr(regs)

TrapSpec == TrapInit /\ [][TrapNext]_vars

\* C19: trap_frame_init(regs, user_sp, user_tls, pc) leaves a frame whose
\* stack pointer, TLS pointer and program counter are the given values and
\* whose every other register, a0 included, is 0, whatever the frame held
\* before; so after trap_frame_clone(dst, src) and trap_frame_init(dst, ..)
\* the return value is 0 for every return value in src.
C19_InitZeroesFrame ==
    [][(last'.op = "trap_frame_init")
        => /\ frames'.dst.sp = last'.a1[1]
           /\ frames'.dst.tp = last'.a1[2]
           /\ frames'.dst.mepc = last'.a1[3]
           /\ \A reg \in FrameRegs \ {"sp", "tp", "mepc"} :
                    frames'.dst[reg] = 0
           /\ frames'.src = frames.src
           /\ (last.op = "trap_frame_clone")
              => GetArg(frames'.dst, 0) = 0]_vars

\* C19 witness: a frame cloned from a source with return value 99 was
\* initialised with a stack pointer and a program counter of 5: it holds
\* return value 0 while the source still holds 99.
C19_Witness ==
    /\ last.op = "trap_frame_init" /\ last.a1 = <<5, 0, 5>>
    /\ frames.src.a0 = 99
    /\ frames.dst.a0 = 0 /\ frames.dst.sp = 5 /\ frames.dst.mepc = 5

\* C20: trap_frame_get_arg(regs, idx) returns register a<idx> for idx in
\* 0..5 and 0 for every idx >= 6, leaving the frames as they are;
\* trap_frame_get_nr returns a7.
C20_GetArgSoftFail ==
    [][/\ (last'.op = "trap_frame_get_arg")
          => LET r == frames[last'.path]
                 idx == last'.a1[1]
             IN  /\ last'.ret = IF idx = 0 THEN r.a0
                                ELSE IF idx = 1 THEN r.a1
                                ELSE IF idx = 2 THEN r.a2
                                ELSE IF idx = 3 THEN r.a3
                                ELSE IF idx = 4 THEN r.a4
                                ELSE IF idx = 5 THEN r.a5
                                ELSE 0
                 /\ frames' = frames
       /\ (last'.op = "trap_frame_get_nr")
          => (last'.ret = frames[last'.path].a7 /\ frames' = frames)]_vars

\* C20 witness: argument 6 of a captured frame was asked for and 0 came
\* back, though a5 and a7 of the frame are not 0.
C20_Witness ==
    /\ last.op = "trap_frame_get_arg" /\ last.path = "src"
    /\ last.a1 = <<6>> /\ last.ret = 0
    /\ frames.src.a5 = 15 /\ frames.src.a7 = 17

(* ------------------- the defaults of the Device trait ------------------ *)

\* The registry of DevSpec with one more driver, which overrides nothing.
DefaultDevices ==
    BuiltinDevices \o <<<<"/dev/plain", "plain">>>>

\* The capabilities each driver's impl block overrides.
Overrides(kind, op) ==
    CASE op \in {"lseek", "ioctl", "close"} -> FALSE
      [] op = "read"  -> kind \in {"null", "zero", "urandom", "stdin", "stdout"}
      [] op = "write" -> kind \in {"null", "zero", "stdin", "stdout"}

\* The defaults of trait Device, as the results of the VFS calls that reach
\* them.
DefaultOf(op) ==
    CASE op \in {"read", "write"} -> 0 - EBADF
      [] op = "lseek" -> 0 - ESPIPE
      [] op = "ioctl" -> 0 - ENOTTY
      [] op = "close" -> 0

DefaultInit ==
    /\ fd_table = [fd \in Slots |-> NoEntry]
    /\ next_fd = FIRST_FD
    /\ devices = DefaultDevices
    /\ opened = [fd \in Slots |-> NoInst]
    /\ last = Called("new", NoFd, "", "", 0, 0, 0)
    /\ call = NoCall
    /\ stored = <<>>
    /\ frames = NewFrames
    /\ cell = NoCell

DefaultNext ==
    \/ \E kind \in BuiltinConsoles : register_fd(0, kind)
    \/ \E i \in 1..Len(DefaultDevices) : open(DefaultDevices[i][1])
    \/ \E fd \in DevFds, buf \in Bufs, count \in Counts : read(fd, buf, count)
    \/ \E fd \in DevFds, buf \in Bufs, count \in Counts : write(fd, buf, count)
    \/ \E fd \in DevFds, offset \in Offsets, whence \in Whences :
            lseek(fd, offset, whence)
    \/ \E fd \in DevFds, request \in Requests, raw_arg \in IoctlArgs :
            ioctl(fd, request, raw_arg)
    \/ \E fd \in DevFds : close(fd)

DefaultSpec == DefaultInit /\ [][DefaultNext]_vars

\* The call of this step went to a Bound descriptor whose driver does not
\* override the capability called.
ReachedDefault ==
    /\ last'.op \in {"read", "write", "lseek", "ioctl", "close"}
    /\ InRange(last'.fd) /\ Bound(fd_table, last'.fd)
    /\ ~Overrides(fd_table[last'.fd].kind, last'.op)

\* C21 as stated: on a descriptor bound to a device that does not override
\* the capability called, read and write return -EBADF, lseek -ESPIPE, ioctl
\* -ENOTTY and close 0, whatever the arguments.
C21_ConservativeDefaults ==
    [][ReachedDefault => last'.ret = DefaultOf(last'.op)]_vars

\* C21 amended: the same, except that read and write with count # 0 and a null
\* buf fail with EFAULT before the device is reached; in every other case
\* read and write return -EBADF, and lseek, ioctl and close return -ESPIPE,
\* -ENOTTY and 0 on every driver (null, zero, urandom, console, plain).
C21_DefaultsBehindBufferCheck ==
    [][ReachedDefault =>
        IF last'.op \in {"read", "write"} /\ last'.a2 # 0 /\ last'.a1 = 0
        THEN last'.ret = 0 - EFAULT /\ call' = NoCall
        ELSE /\ last'.ret = DefaultOf(last'.op)
             /\ call'.inst = fd_table[last'.fd].id]_vars

\* C21 witness: lseek on a descriptor bound to the urandom device failed with
\* ESPIPE.
C21_Witness ==
    /\ last.op = "lseek" /\ last.fd = FIRST_FD
    /\ fd_table[FIRST_FD].kind = "urandom"
    /\ last.ret = 0 - ESPIPE

(* ------------- callers of the global functions, interleaved ------------ *)

\* Descriptors the callers hand to close.
ConcFds == {FIRST_FD, FIRST_FD + 1}

\* GlobalCell: the cell can be entered when nobody is inside.
Borrowable(cl) == cl.borrowed = 0

\* A caller found the cell occupied: the programming error of section 5.
Panicked == \E c \in Callers : cell.at[c] = "panic"

\* The callers inside the cell.
Inside == {c \in Callers : cell.at[c] \notin {"idle", "panic"}}

\* The instances in the Bound slots.
Occupants(tbl) == {tbl[fd].id : fd \in {s \in Slots : Bound(tbl, s)}}

ConcInit ==
    /\ fd_table = [fd \in Slots |-> NoEntry]
    /\ next_fd = FIRST_FD
    /\ devices = ZeroOnly
    /\ opened = [fd \in Slots |-> NoInst]
    /\ last = Called("new", NoFd, "", "", 0, 0, 0)
    /\ call = NoCall
    /\ stored = <<>>
    /\ frames = NewFrames
    /\ cell = NoCell

\* The global functions of vfs.rs; open is open_cstr's call of Vfs::open.
GlobalFns ==
    {"register_fd", "register_device", "read", "write", "lseek", "ioctl",
     "open", "close", "fstat"}

\* The cell on entry of caller c for the global function op: entered when
\* nobody is inside, the programming error otherwise.
Enter(c, op) ==
    IF Borrowable(cell)
    THEN [cell EXCEPT !.borrowed = c, !.at[c] = op]
    ELSE [cell EXCEPT !.at[c] = "panic"]

\* VFS.with_mut(..) on entry: caller c starts the global function op.  A
\* register_device is called while the registry is below MaxDevices.
with_mut(c, op) ==
    /\ ~Panicked
    /\ cell.at[c] = "idle"
    /\ op = "register_device" => Len(devices) < MaxDevices
    /\ cell' = Enter(c, op)
    /\ UNCHANGED <<fd_table, next_fd, devices, opened, last, call, stored,
                   frames>>

\* VFS.with(..) on entry: caller c starts fstat, the one global function
\* that enters through with.  The cell forbids concurrent access of either
\* kind.
with(c) ==
    /\ ~Panicked
    /\ cell.at[c] = "idle"
    /\ cell' = Enter(c, "fstat")
    /\ UNCHANGED <<fd_table, next_fd, devices, opened, last, call, stored,
                   frames>>

\* Vfs::open, up to the scan: the lookup fails, the table is full, or a slot
\* is found.
open_find(c, path) ==
    LET r == OpenResult(fd_table, next_fd, devices, path)
    IN  /\ ~Panicked
        /\ cell.at[c] = "open"
        /\ IF r < 0
           THEN /\ cell' = [cell EXCEPT !.borrowed = 0, !.at[c] = "idle"]
                /\ last' = Called("open", NoFd, path, "", c, 0, r)
                /\ call' = NoCall
                /\ stored' = <<>>
           ELSE /\ cell' = [cell EXCEPT !.at[c] = "open_bind",
                                        !.found[c] = r, !.path[c] = path]
                /\ UNCHANGED <<last, call, stored>>
        /\ UNCHANGED <<fd_table, next_fd, devices, opened, frames>>

\* Vfs::open, from the hint's update to the return, and the cell's release.
open_bind(c) ==
    LET fd == cell.found[c]
        f  == Lookup(devices, cell.path[c])
        id == NewInst(fd_table, fd, "open")
    IN  /\ ~Panicked
        /\ cell.at[c] = "open_bind"
        /\ next_fd' = NextHint(fd)
        /\ call' = [inst |-> id, meth |-> "create", args |-> <<f>>]
        /\ fd_table' = [fd_table EXCEPT
                          ![fd] = [id |-> id, kind |-> devices[f][2]]]
        /\ opened' = [opened EXCEPT ![fd] = id]
        /\ last' = Called("open", NoFd, cell.path[c], "", c, 0, fd)
        /\ cell' = [cell EXCEPT !.borrowed = 0, !.at[c] = "idle",
                                !.found[c] = NoFd, !.path[c] = "",
                                !.held[c] = @ \cup {fd},
                                !.live = @ \cup {id}]
        /\ stored' = <<>>
        /\ UNCHANGED <<devices, frames>>

\* Vfs::close inside the cell, and the cell's release.
close_take(c, fd) ==
    LET r == CloseResult(fd_table, fd)
    IN  /\ ~Panicked
        /\ cell.at[c] = "close"
        /\ last' = Called("close", fd, "", "", c, 0, r.ret)
        /\ call' = r.call
        /\ fd_table' = CloseTable(fd_table, fd)
        /\ opened' = IF r.call.meth = "release"
                     THEN [opened EXCEPT ![fd] = NoInst] ELSE opened
        /\ cell' = IF r.call.meth = "release"
                   THEN [cell EXCEPT
                           !.borrowed = 0, !.at[c] = "idle",
                           !.held = [k \in Callers |-> cell.held[k] \ {fd}],
                           !.live = @ \ {r.call.inst}]
                   ELSE [cell EXCEPT !.borrowed = 0, !.at[c] = "idle"]
        /\ stored' = <<>>
        /\ UNCHANGED <<next_fd, devices, frames>>

\* The cell's release by caller c, the table left as it is.
Leave(c) == cell' = [cell EXCEPT !.borrowed = 0, !.at[c] = "idle"]

\* Vfs::register_fd inside the cell: the entry moved into the slot replaces,
\* and drops, the one that was there.
register_fd_in(c, fd, kind) ==
    LET id == NewInst(fd_table, fd, "register_fd")
    IN  /\ ~Panicked
        /\ cell.at[c] = "register_fd"
        /\ fd_table' = RegisterFdTable(fd_table, fd,
                                       [id |-> id, kind |-> kind])
        /\ last' = Called("register_fd", fd, "", kind, c, 0,
                          RegisterFdResult(fd))
        /\ call' = NoCall
        /\ cell' = [cell EXCEPT
                      !.borrowed = 0, !.at[c] = "idle",
                      !.live = IF InRange(fd)
                               THEN (@ \ {fd_table[fd].id}) \cup {id}
                               ELSE @]
        /\ stored' = <<>>
        /\ UNCHANGED <<next_fd, devices, opened, frames>>

\* Vfs::register_device inside the cell.
register_device_in(c, path, factory) ==
    /\ ~Panicked
    /\ cell.at[c] = "register_device"
    /\ devices' = RegisterDeviceList(devices, path, factory)
    /\ last' = Called("register_device", NoFd, path, factory, c, 0, 0)
    /\ call' = NoCall
    /\ stored' = <<>>
    /\ Leave(c)
    /\ UNCHANGED <<fd_table, next_fd, opened, frames>>

\* Vfs::read inside the cell.
read_in(c, fd, buf, count) ==
    LET r == ReadResult(fd_table, fd, buf, count)
    IN  /\ ~Panicked
        /\ cell.at[c] = "read"
        /\ last' = Called("read", fd, "", "", c, count, r.ret)
        /\ call' = r.call
        /\ stored' = ReadStored(fd_table, fd, buf, count)
        /\ Leave(c)
        /\ UNCHANGED <<fd_table, next_fd, devices, opened, frames>>

\* Vfs::write inside the cell.
write_in(c, fd, buf, count) ==
    LET r == WriteResult(fd_table, fd, buf, count)
    IN  /\ ~Panicked
        /\ cell.at[c] = "write"
        /\ last' = Called("write", fd, "", "", c, count, r.ret)
        /\ call' = r.call
        /\ stored' = <<>>
        /\ Leave(c)
        /\ UNCHANGED <<fd_table, next_fd, devices, opened, frames>>

\* Vfs::lseek inside the cell.
lseek_in(c, fd, offset, whence) ==
    LET r == LseekResult(fd_table, fd, offset, whence)
    IN  /\ ~Panicked
        /\ cell.at[c] = "lseek"
        /\ last' = Called("lseek", fd, "", "", c, whence, r.ret)
        /\ call' = r.call
        /\ stored' = <<>>
        /\ Leave(c)
        /\ UNCHANGED <<fd_table, next_fd, devices, opened, frames>>

\* Vfs::ioctl inside the cell.
ioctl_in(c, fd, request, raw_arg) ==
    LET r == IoctlResult(fd_table, fd, request, raw_arg)
    IN  /\ ~Panicked
        /\ cell.at[c] = "ioctl"
        /\ last' = Called("ioctl", fd, "", "", c, request, r.ret)
        /\ call' = r.call
        /\ stored' = <<>>
        /\ Leave(c)
        /\ UNCHANGED <<fd_table, next_fd, devices, opened, frames>>

\* Vfs::fstat inside the cell.
fstat_in(c, fd, statbuf) ==
    /\ ~Panicked
    /\ cell.at[c] = "fstat"
    /\ last' = Called("fstat", fd, "", "", c, statbuf,
                      FstatResult(fd, statbuf))
    /\ call' = NoCall
    /\ stored' = <<>>
    /\ Leave(c)
    /\ UNCHANGED <<fd_table, next_fd, devices, opened, frames>>

ConcNext ==
    \/ \E c \in Callers, op \in GlobalFns \ {"fstat"} : with_mut(c, op)
    \/ \E c \in Callers : with(c)
    \/ \E c \in Callers, path \in Paths : open_find(c, path)
    \/ \E c \in Callers : open_bind(c)
    \/ \E c \in Callers, fd \in ConcFds : close_take(c, fd)
    \/ \E c \in Callers, kind \in ConsoleKinds :
          register_fd_in(c, FIRST_FD, kind)
    \/ \E c \in Callers, reg \in Registrations :
          register_device_in(c, reg[1], reg[2])
    \/ \E c \in Callers : read_in(c, FIRST_FD, 4096, 2)
    \/ \E c \in Callers : write_in(c, FIRST_FD, 4096, 2)
    \/ \E c \in Callers, offset \in Offsets, whence \in Whences :
          lseek_in(c, FIRST_FD, offset, whence)
    \/ \E c \in Callers, raw_arg \in IoctlArgs :
          ioctl_in(c, FIRST_FD, 21505, raw_arg)
    \/ \E c \in Callers : fstat_in(c, FIRST_FD, 4096)

ConcSpec == ConcInit /\ [][ConcNext]_vars

\* C22: under any interleaving of the callers' steps, at most one caller is
\* inside the cell and the table changes only by that caller's step; a
\* successful open returns a descriptor no caller still holds open and binds
\* into a slot that was Empty; and the devices made by open or handed to
\* register_fd, and not yet released or replaced, are exactly the occupants
\* of the Bound slots, one per slot.
C22_CallsAreSerialized ==
    [][/\ Cardinality(Inside) <= 1
       /\ \A c \in Callers :
            /\ (c \in Inside
                  /\ <<fd_table, next_fd, devices>>' # <<fd_table, next_fd, devices>>)
               => (cell.borrowed = c /\ cell'.at[c] = "idle")
            /\ (cell.at[c] = "open_bind" /\ cell'.at[c] = "idle")
               => /\ last'.ret = cell.found[c]
                  /\ \A k \in Callers : last'.ret \notin cell.held[k]
                  /\ ~Bound(fd_table, last'.ret)
                  /\ Bound(fd_table', last'.ret)
       /\ cell'.live = Occupants(fd_table')
       /\ Cardinality(cell'.live)
            = Cardinality({s \in Slots : Bound(fd_table', s)})
       /\ \A c, k \in Callers : c # k => cell'.held[c] \cap cell'.held[k] = {}
      ]_vars

\* C22 witness: both callers opened, one after the other; caller 1 still holds
\* descriptor 3 when the open of caller 2 returns descriptor 4.
C22_Witness ==
    /\ cell.held[1] = {FIRST_FD} /\ cell.held[2] = {FIRST_FD + 1}
    /\ Inside = {}
    /\ last.op = "open" /\ last.a1 = 2 /\ last.ret = FIRST_FD + 1

(* --------------------------- mini_template ----------------------------- *)

\* A string (&str) is the sequence of its UTF-8 bytes, each a number; byte
\* offsets count from 0.  The ASCII characters the templates are written
\* with, and their bytes:
Byte ==
    ("\t" :> 9) @@
    ("\n" :> 10) @@
    ("\r" :> 13) @@
    (" " :> 32) @@
    ("%" :> 37) @@
    ("a" :> 97) @@
    ("d" :> 100) @@
    ("e" :> 101) @@
    ("f" :> 102) @@
    ("i" :> 105) @@
    ("l" :> 108) @@
    ("n" :> 110) @@
    ("o" :> 111) @@
    ("s" :> 115) @@
    ("v" :> 118) @@
    ("x" :> 120) @@
    ("y" :> 121) @@
    ("{" :> 123) @@
    ("}" :> 125)

\* The bytes of a text given as its ASCII characters.
Bytes(chars) == [k \in 1..Len(chars) |-> Byte[chars[k]]]

\* Option<usize>::None of str::find.
NoIdx == 0 - 1

\* str::find: the offset of the first occurrence of pat in s.
find(s, pat) ==
    LET m == {k \in 0..(Len(s) - Len(pat)) :
                \A j \in 1..Len(pat) : s[k + j] = pat[j]}
    IN  IF m = {} THEN NoIdx ELSE CHOOSE k \in m : \A j \in m : k <= j

\* char::is_whitespace: the characters with the White_Space property, each
\* as its UTF-8 bytes: U+0009..U+000D, U+0020, U+0085, U+00A0, U+1680,
\* U+2000..U+200A, U+2028, U+2029, U+202F, U+205F, U+3000.
WhiteSpace ==
    {<<b>> : b \in 9..13} \cup {<<32>>, <<194, 133>>, <<194, 160>>}
      \cup {<<225, 154, 128>>} \cup {<<226, 128, b>> : b \in 128..138}
      \cup {<<226, 128, 168>>, <<226, 128, 169>>, <<226, 128, 175>>}
      \cup {<<226, 129, 159>>, <<227, 128, 128>>}

RECURSIVE trim_start(_)
\* str::trim_start: s without its leading white space.  The character s
\* starts with is one byte below 128, and otherwise the two or three bytes
\* that make a white-space character.
trim_start(s) ==
    LET n == IF s = <<>> THEN 0
             ELSE IF s[1] < 128
             THEN (IF <<s[1]>> \in WhiteSpace THEN 1 ELSE 0)
             ELSE IF Len(s) >= 2 /\ SubSeq(s, 1, 2) \in WhiteSpace THEN 2
             ELSE IF Len(s) >= 3 /\ SubSeq(s, 1, 3) \in WhiteSpace THEN 3
             ELSE 0
    IN  IF n = 0 THEN s ELSE trim_start(SubSeq(s, n + 1, Len(s)))

RECURSIVE trim_end(_)
\* str::trim_end: s without its trailing white space.
trim_end(s) ==
    LET e == Len(s)
        n == IF s = <<>> THEN 0
             ELSE IF s[e] < 128
             THEN (IF <<s[e]>> \in WhiteSpace THEN 1 ELSE 0)
             ELSE IF e >= 2 /\ SubSeq(s, e - 1, e) \in WhiteSpace THEN 2
             ELSE IF e >= 3 /\ SubSeq(s, e - 2, e) \in WhiteSpace THEN 3
             ELSE 0
    IN  IF n = 0 THEN s ELSE trim_end(SubSeq(s, 1, e - n))

\* str::trim: s without its leading and trailing white space.
trim(s) == trim_end(trim_start(s))

\* str::strip_prefix.
strip_prefix(s, p) ==
    IF Len(s) >= Len(p) /\ SubSeq(s, 1, Len(p)) = p
    THEN [some |-> TRUE, rest |-> SubSeq(s, Len(p) + 1, Len(s))]
    ELSE [some |-> FALSE, rest |-> <<>>]

\* Context::get_bool and Context::get_str: the entry of name, if any.
get_bool(ctx, name) ==
    IF \E e \in ctx.bools : e.name = name
    THEN [some |-> TRUE, val |-> (CHOOSE e \in ctx.bools : e.name = name).val]
    ELSE [some |-> FALSE, val |-> FALSE]

get_str(ctx, name) ==
    IF \E e \in ctx.strs : e.name = name
    THEN [some |-> TRUE, val |-> (CHOOSE e \in ctx.strs : e.name = name).val]
    ELSE [some |-> FALSE, val |-> <<>>]

\* should_emit looking at the innermost frame only.
MutShouldEmitTop(stack) ==
    \/ stack = <<>>
    \/ LET f == stack[Len(stack)]
       IN  IF f.in_else THEN ~f.cond_true ELSE f.cond_true

\* should_emit: every active frame selects this branch.
should_emit(stack) ==
    \A k \in 1..Len(stack) :
        IF stack[k].in_else THEN ~stack[k].cond_true ELSE stack[k].cond_true

\* Result<String, RenderError>.
RenderOk(out) == [ok |-> TRUE, out |-> out]
RenderError(message, arg, byte_offset) ==
    [ok |-> FALSE, message |-> <<message, arg>>, byte_offset |-> byte_offset]
\* render did not return: slicing rest2[2..close] with close < 2 panics.
RenderPanic(begin, end) ==
    [ok |-> FALSE, panic |-> <<"slice index starts at", begin,
                               "but ends at", end>>]

\* &s[from..to] for from <= to; byte offsets from 0.
Slice(s, from, to) == SubSeq(s, from + 1, to)

\* The tags render knows.
TagElse == Bytes(<<"e", "l", "s", "e">>)
TagEndif == Bytes(<<"e", "n", "d", "i", "f">>)
TagIf == Bytes(<<"i", "f", " ">>)

\* The delimiters of a tag and of an expression.
TagOpen == Bytes(<<"{", "%">>)
TagClose == Bytes(<<"%", "}">>)
ExprOpen == Bytes(<<"{", "{">>)
ExprClose == Bytes(<<"}", "}">>)

\* render, tag == "else": the stack afterwards, or the error.
else_tag(stack, tag_offset) ==
    IF stack = <<>>
    THEN RenderError("{% else %} without matching {% if ... %}", <<>>,
                     tag_offset)
    ELSE IF stack[Len(stack)].in_else
    THEN RenderError("Duplicate {% else %} in the same {% if %} block", <<>>,
                     tag_offset)
    ELSE [ok |-> TRUE, stack |-> [stack EXCEPT ![Len(stack)].in_else = TRUE]]

\* render, tag == "endif".
endif_tag(stack, tag_offset) ==
    IF stack = <<>>
    THEN RenderError("{% endif %} without matching {% if ... %}", <<>>,
                     tag_offset)
    ELSE [ok |-> TRUE, stack |-> SubSeq(stack, 1, Len(stack) - 1)]

\* render, tag == "if <ident>".
if_tag(stack, ctx, cond, tag_offset) ==
    LET ident == trim(cond)
        b     == get_bool(ctx, ident)
    IN  IF ident = <<>>
        THEN RenderError("Empty identifier in {% if %}", <<>>, tag_offset)
        ELSE IF ~b.some
        THEN RenderError("Unknown boolean identifier in template: ", ident,
                         tag_offset)
        ELSE [ok |-> TRUE,
              stack |-> Append(stack, [cond_true |-> b.val,
                                       in_else |-> FALSE])]

\* render, a control tag: which of the three it is.
ctrl_tag(stack, ctx, tag, tag_offset) ==
    IF tag = TagElse THEN else_tag(stack, tag_offset)
    ELSE IF tag = TagEndif THEN endif_tag(stack, tag_offset)
    ELSE IF strip_prefix(tag, TagIf).some
    THEN if_tag(stack, ctx, strip_prefix(tag, TagIf).rest, tag_offset)
    ELSE RenderError("Unknown template tag: ", tag, tag_offset)

\* render, an expression {{ ident }}: the output afterwards, or the error.
expr_tag(stack, ctx, expr, expr_offset, out) ==
    IF ~should_emit(stack) THEN [ok |-> TRUE, out |-> out]
    ELSE IF expr = <<>>
    THEN RenderError("Empty identifier in {{ ... }}", <<>>, expr_offset)
    ELSE IF ~get_str(ctx, expr).some
    THEN RenderError("Unknown string identifier in template: ", expr,
                     expr_offset)
    ELSE [ok |-> TRUE, out |-> out \o get_str(ctx, expr).val]

\* render, after the loop.
render_end(template, stack, out) ==
    IF stack # <<>>
    THEN RenderError("Unclosed {% if %} block(s)", <<>>, Len(template))
    ELSE RenderOk(out)

RECURSIVE render_loop(_, _, _, _, _)
\* render, the loop from byte offset i on.
render_loop(template, ctx, i, stack, out) ==
    IF ~(i < Len(template)) THEN render_end(template, stack, out)
    ELSE
    LET rest      == SubSeq(template, i + 1, Len(template))
        next_ctrl == find(rest, TagOpen)
        next_expr == find(rest, ExprOpen)
    IN  IF next_ctrl = NoIdx /\ next_expr = NoIdx
        THEN render_end(template, stack,
                        IF should_emit(stack) THEN out \o rest ELSE out)
        ELSE
        LET is_ctrl == \/ next_expr = NoIdx
                       \/ next_ctrl # NoIdx /\ next_ctrl <= next_expr
            open_at == IF is_ctrl THEN next_ctrl ELSE next_expr
            text    == SubSeq(rest, 1, open_at)
            out1    == IF should_emit(stack) THEN out \o text ELSE out
            i1      == i + open_at
            rest2   == SubSeq(template, i1 + 1, Len(template))
        IN  IF is_ctrl
            THEN LET close_at == find(rest2, TagClose)
                 IN  IF close_at = NoIdx
                     THEN RenderError("Unclosed template tag", <<>>, i1)
                     ELSE IF close_at < 2 THEN RenderPanic(2, close_at)
                     ELSE LET r == ctrl_tag(stack, ctx,
                                            trim(Slice(rest2, 2, close_at)), i1)
                          IN  IF ~r.ok THEN r
                              ELSE render_loop(template, ctx, i1 + close_at + 2,
                                               r.stack, out1)
            ELSE LET close_at == find(rest2, ExprClose)
                 IN  IF close_at = NoIdx
                     THEN RenderError("Unclosed template expression", <<>>, i1)
                     ELSE IF close_at < 2 THEN RenderPanic(2, close_at)
                     ELSE LET r == expr_tag(stack, ctx,
                                            trim(Slice(rest2, 2, close_at)),
                                            i1, out1)
                          IN  IF ~r.ok THEN r
                              ELSE render_loop(template, ctx, i1 + close_at + 2,
                                               stack, r.out)

\* mini_template::render.
render(template, ctx) == render_loop(template, ctx, 0, <<>>, <<>>)

\* The templates rendered: sequences of at most MaxPieces pieces, each a text,
\* an expression or a tag, rendered after each piece is appended.  A
\* template is extended as long as it renders or fails only because it is
\* not finished yet.
MaxPieces == 6

\* The source text of a tag.
TagSrc(body) == TagOpen \o Bytes(<<" ">>) \o body \o Bytes(<<" ">>) \o TagClose

\* White space other than the space: a vertical tab (U+000B), a no-break
\* space (U+00A0), a line separator (U+2028) and an ideographic space
\* (U+3000), as their UTF-8 bytes.
VTab == <<11>>
Nbsp == <<194, 160>>
LineSep == <<226, 128, 168>>
IdeoSpace == <<227, 128, 128>>

\* A tag padded with a vertical tab, a no-break space and a line feed, and
\* an expression padded with an ideographic space, a tab and a line end.
TagTabbed(body) == TagOpen \o VTab \o body \o Nbsp \o Bytes(<<"\n">>) \o TagClose
ExprTabbed(body) == ExprOpen \o IdeoSpace \o Bytes(<<"\t">>) \o body \o Bytes(<<"\r", "\n">>) \o ExprClose

\* The context: booleans x (true) and y (false), string s; n is absent.
Ctx ==
    [bools |-> {[name |-> Bytes(<<"x">>), val |-> TRUE],
                [name |-> Bytes(<<"y">>), val |-> FALSE]},
     strs  |-> {[name |-> Bytes(<<"s">>), val |-> Bytes(<<"v">>)]}]

Pieces ==
    {[kind |-> "text", name |-> <<>>, src |-> Bytes(<<"a">>)],
     [kind |-> "expr", name |-> Bytes(<<"s">>), src |-> ExprTabbed(Bytes(<<"s">>))],
     [kind |-> "if", name |-> Bytes(<<"x">>), src |-> TagSrc(TagIf \o Bytes(<<"x">>))],
     [kind |-> "if", name |-> Bytes(<<"y">>),
      src |-> TagTabbed(TagIf \o Bytes(<<"\t">>) \o LineSep \o Bytes(<<"y">>))],
     [kind |-> "if", name |-> Bytes(<<"n">>), src |-> TagSrc(TagIf \o Bytes(<<"n">>))],
     [kind |-> "else", name |-> <<>>, src |-> TagSrc(TagElse)],
     [kind |-> "endif", name |-> <<>>, src |-> TagSrc(TagEndif)],
     [kind |-> "tag", name |-> Bytes(<<"f", "o", "o">>),
      src |-> TagSrc(Bytes(<<"f", "o", "o">>))],
     [kind |-> "open", name |-> Bytes(<<"x">>),
      src |-> TagOpen \o Bytes(<<" ">>) \o TagIf \o Bytes(<<"x">>)],
     [kind |-> "open", name |-> <<>>, src |-> Bytes(<<"{", "%", "}">>)]}

\* The template rendered, or failed only because a block is still open.
Unfinished(ret) ==
    IF ret.ok THEN TRUE
    ELSE IF "panic" \in DOMAIN ret THEN FALSE
    ELSE ret.message[1] = "Unclosed {% if %} block(s)"

TmplInit ==
    /\ fd_table = [fd \in Slots |-> NoEntry]
    /\ next_fd = FIRST_FD
    /\ devices = <<>>
    /\ opened = [fd \in Slots |-> NoInst]
    /\ last = Called("render", NoFd, "", "", <<>>, <<>>, render(<<>>, Ctx))
    /\ call = NoCall
    /\ stored = <<>>
    /\ frames = NewFrames
    /\ cell = NoCell

\* render(template, ctx) of the template so far followed by piece.
Render(piece) ==
    /\ Len(last.a2) < MaxPieces
    /\ Unfinished(last.ret)
    /\ last' = Called("render", NoFd, "", "", last.a1 \o piece.src,
                      Append(last.a2, piece),
                      render(last.a1 \o piece.src, Ctx))
    /\ UNCHANGED <<fd_table, next_fd, devices, opened, call, stored, frames,
                   cell>>

TmplNext == \E piece \in Pieces : Render(piece)

TmplSpec == TmplInit /\ [][TmplNext]_vars

\* The structure of a template, read off its pieces without rendering it:
\* the nesting depth after piece k, the blocks around piece j, and the
\* branch of each that j lies in.
Depth(ps, k) ==
    Cardinality({m \in 1..k : ps[m].kind = "if"})
      - Cardinality({m \in 1..k : ps[m].kind = "endif"})

Encloses(ps, k, j) ==
    /\ k < j /\ ps[k].kind = "if"
    /\ \A m \in (k + 1)..(j - 1) : Depth(ps, m) >= Depth(ps, k)

InElseOf(ps, k, j) ==
    \E e \in (k + 1)..(j - 1) :
        ps[e].kind = "else" /\ Depth(ps, e) = Depth(ps, k)

Selected(ps, j) ==
    \A k \in 1..(j - 1) :
        Encloses(ps, k, j)
        => (get_bool(Ctx, ps[k].name).val = ~InElseOf(ps, k, j))

RECURSIVE Emitted(_, _)
\* What the pieces up to j contribute to the output, in template order.
Emitted(ps, j) ==
    IF j = 0 THEN <<>>
    ELSE Emitted(ps, j - 1)
         \o (IF ~Selected(ps, j) THEN <<>>
             ELSE IF ps[j].kind = "text" THEN ps[j].src
             ELSE IF ps[j].kind = "expr" THEN get_str(Ctx, ps[j].name).val
             ELSE <<>>)

\* C23: whenever render returns Ok, its output is, in template order, exactly
\* the texts and the {{ ident }} values whose every enclosing {% if %} block
\* selects the branch they lie in (then-branch for a true boolean,
\* else-branch for a false one), at any nesting depth; what lies outside all
\* blocks is always there.
C23_EmitsSelectedBranches ==
    (last.op = "render" /\ last.ret.ok)
    => last.ret.out = Emitted(last.a2, Len(last.a2))

\* C23 witness: {% if x %}{% if y %}{% else %}a{% endif %}{% endif %} is
\* rendered as "a": the text lies in the else-branch of the inner block
\* (y false) inside the then-branch of the outer one (x true).
C23_Witness ==
    /\ last.op = "render" /\ Len(last.a2) = 6
    /\ last.a2[1].kind = "if" /\ last.a2[1].name = Bytes(<<"x">>)
    /\ last.a2[2].kind = "if" /\ last.a2[2].name = Bytes(<<"y">>)
    /\ last.a2[3].kind = "else" /\ last.a2[4].kind = "text"
    /\ last.a2[5].kind = "endif" /\ last.a2[6].kind = "endif"
    /\ last.ret = RenderOk(Bytes(<<"a">>))

\* The ways a template is malformed, read off its pieces.
IllFormed(ps) ==
    \/ \E j \in 1..Len(ps) :
        \/ ps[j].kind = "if" /\ ~get_bool(Ctx, ps[j].name).some
        \/ ps[j].kind = "else" /\ Depth(ps, j) = 0
        \/ ps[j].kind = "endif" /\ Depth(ps, j) < 0
        \/ ps[j].kind \in {"tag", "open"}
        \/ /\ ps[j].kind = "else"
           /\ \E e \in 1..(j - 1) :
                /\ ps[e].kind = "else" /\ Depth(ps, e) = Depth(ps, j)
                /\ \A m \in e..j : Depth(ps, m) >= Depth(ps, j)
    \/ Depth(ps, Len(ps)) > 0

\* C24: render returns an error, which carries no output, whenever an
\* {% if %} names a boolean the context lacks, an {% else %} or {% endif %}
\* has no open {% if %}, a block has a second {% else %}, a tag is unknown or
\* unclosed, or a block is still open at the end; so it returns Ok only for
\* well-formed templates.
C24_ErrorsOnMalformed ==
    (last.op = "render" /\ IllFormed(last.a2))
    => (~last.ret.ok /\ "message" \in DOMAIN last.ret
                     /\ "out" \notin DOMAIN last.ret)

(* --------------------------- build_musl_stack -------------------------- *)

\* A usize or u64 is the sequence of its 8 bytes, lowest first; addresses are
\* small enough to be numbers.
WordBytes == 8

\* n as usize, for n below 2^31.
Usize(n) ==
    [i \in 1..WordBytes |->
        IF i > 4 THEN 0 ELSE (n \div Pow2(8 * (i - 1))) % 256]

RECURSIVE BitXor(_, _)
BitXor(a, b) ==
    IF a = 0 THEN b
    ELSE IF b = 0 THEN a
    ELSE ((a + b) % 2) + 2 * BitXor(a \div 2, b \div 2)

\* x ^ y on u64.
Xor64(x, y) == [i \in 1..WordBytes |-> BitXor(x[i], y[i])]

RECURSIVE ColSum(_, _, _, _)
\* The sum of the byte products x[i] * y[k + 1 - i] for i in 1..n.
ColSum(x, y, k, n) ==
    IF n = 0 THEN 0 ELSE x[n] * y[k + 1 - n] + ColSum(x, y, k, n - 1)

RECURSIVE MulCarry(_, _, _)
\* The carry into byte k of x * y.
MulCarry(x, y, k) ==
    IF k = 1 THEN 0
    ELSE (ColSum(x, y, k - 1, k - 1) + MulCarry(x, y, k - 1)) \div 256

\* u64::wrapping_mul.
wrapping_mul(x, y) ==
    [k \in 1..WordBytes |-> (ColSum(x, y, k, k) + MulCarry(x, y, k)) % 256]

\* state >> 33 on u64.
Shr33(x) ==
    LET w == [i \in 1..(WordBytes + 1) |-> IF i <= 4 THEN x[i + 4] ELSE 0]
    IN  [i \in 1..WordBytes |-> (w[i] \div 2) + (w[i + 1] % 2) * 128]

\* 0x123456789abcdef0, 0x5851f42d4c957f2d and 0xdeadbeef_cafebabe.
RandomSeed == <<240, 222, 188, 154, 120, 86, 52, 18>>
RandomMul == <<45, 127, 149, 76, 45, 244, 81, 88>>
Entropy2 == <<190, 186, 254, 202, 239, 190, 173, 222>>

\* generate_random_bytes, one round of the loop and of the tail.
RandomStep(state) ==
    LET m == wrapping_mul(state, RandomMul) IN Xor64(m, Shr33(m))

\* generate_random_bytes(&[e1, e2]) -> (random_low, random_high).
generate_random_bytes(e1, e2) ==
    LET s1 == RandomStep(Xor64(RandomSeed, e1))
        s2 == RandomStep(Xor64(s1, e2))
    IN  [random_low |-> s2, random_high |-> RandomStep(s2)]

\* The auxiliary vector keys.
AT_NULL == 0
AT_PHDR == 3
AT_PHENT == 4
AT_PHNUM == 5
AT_PAGESZ == 6
AT_ENTRY == 9
AT_UID == 11
AT_EUID == 12
AT_GID == 13
AT_EGID == 14
AT_CLKTCK == 17
AT_SECURE == 23
AT_RANDOM == 25
AT_HWCAP == 16

\* DownwardStack::new, with the memory written so far (address of a word |->
\* its bytes) and whether a push found the stack too small.
DownwardStack_new(stack_top, buffer_bottom, bounds_checks) ==
    [sp |-> stack_top, buffer_bottom |-> buffer_bottom,
     bounds_checks |-> bounds_checks, mem |-> <<>>, overflow |-> FALSE]

\* DownwardStack::push of the usize values vals, one after the other; with
\* feature bounds-checks a push below buffer_bottom panics.
push(ds, vals) ==
    LET sp1 == ds.sp - WordBytes * Len(vals)
    IN  IF ds.overflow THEN ds
        ELSE IF ds.bounds_checks /\ sp1 < ds.buffer_bottom
        THEN [ds EXCEPT !.sp = sp1, !.overflow = TRUE]
        ELSE [ds EXCEPT
                !.sp = sp1,
                !.mem = [a \in {ds.sp - WordBytes * k : k \in 1..Len(vals)}
                           |-> vals[(ds.sp - a) \div WordBytes]] @@ @]

\* DownwardStack::push_bytes_aligned: the bytes, zero-padded to a multiple of
\* align.
push_bytes_aligned(ds, bytes, align) ==
    LET rounded == ((Len(bytes) + (align - 1)) \div align) * align
        sp1     == ds.sp - rounded
        padded  == [i \in 1..rounded |->
                        IF i <= Len(bytes) THEN bytes[i] ELSE 0]
        words   == [a \in {sp1 + WordBytes * k : k \in 0..(rounded \div WordBytes - 1)}
                      |-> SubSeq(padded, a - sp1 + 1, a - sp1 + WordBytes)]
    IN  IF ds.overflow THEN ds
        ELSE IF ds.bounds_checks /\ sp1 < ds.buffer_bottom
        THEN [ds EXCEPT !.sp = sp1, !.overflow = TRUE]
        ELSE [ds EXCEPT !.sp = sp1, !.mem = words @@ @]

\* b"RUST_BACKTRACE=full\0".
RustBacktrace ==
    <<82, 85, 83, 84, 95, 66, 65, 67, 75, 84, 82, 65, 67, 69, 61,
      102, 117, 108, 108, 0>>

\* auxv_entries.
AuxvEntries ==
    <<<<AT_PHDR, 0>>, <<AT_PHENT, 0>>, <<AT_PHNUM, 0>>, <<AT_ENTRY, 0>>,
      <<AT_PAGESZ, 4096>>, <<AT_CLKTCK, 100>>, <<AT_HWCAP, 0>>,
      <<AT_UID, 0>>, <<AT_EUID, 0>>, <<AT_GID, 0>>, <<AT_EGID, 0>>,
      <<AT_SECURE, 0>>, <<AT_RANDOM, 0>>, <<AT_NULL, 0>>>>

\* for &(key, val) in auxv_entries.iter().rev(): the values pushed, in the
\* order of the pushes (eff_val, then key, from the last entry to the first).
AuxvWords(at_random_ptr) ==
    [i \in 1..(2 * Len(AuxvEntries)) |->
        LET entry   == AuxvEntries[Len(AuxvEntries) - (i - 1) \div 2]
            eff_val == IF entry[1] = AT_RANDOM THEN at_random_ptr
                       ELSE entry[2]
        IN  IF i % 2 = 1 THEN Usize(eff_val) ELSE Usize(entry[1])]

\* build_musl_stack on a 64-bit target, built with or without the features
\* backtrace and bounds-checks: what it returns and the memory it wrote.
build_musl_stack(stack_top, stack_bottom, program_name, backtrace, checks) ==
    LET ds0 == DownwardStack_new(stack_top, stack_bottom, checks)
        ds1 == IF backtrace
               THEN push_bytes_aligned(ds0, RustBacktrace, WordBytes)
               ELSE ds0
        rust_backtrace_ptr == ds1.sp
        rnd == generate_random_bytes(Usize(stack_top), Entropy2)
        ds2 == push(ds1, <<rnd.random_high, rnd.random_low>>)
        at_random_ptr == ds2.sp
        ds3 == push(ds2, AuxvWords(at_random_ptr))
        ds4 == push(ds3, <<Usize(0)>>
                         \o (IF backtrace THEN <<Usize(rust_backtrace_ptr)>>
                             ELSE <<>>)
                         \o <<Usize(0), Usize(program_name), Usize(1)>>)
    IN  IF ds4.overflow
        THEN [panic |-> "Stack overflow!", ret |-> 0, mem |-> <<>>]
        ELSE [panic |-> "", ret |-> stack_top - ds4.sp, mem |-> ds4.mem]

\* The stacks built: bottom address and size in bytes, the address of the
\* program name, and the features of the build.  A stack of 256 bytes is too
\* small; the caller may pass one only to a build with bounds-checks, which
\* panics instead of writing below the buffer.
StackBottoms == {240, 4096, 4104, 65536, 1048576, 2097152}
StackSizes == {256, 304, 4096}
ProgramNames == {1000, 2000}

\* What build_musl_stack is called with.
StackArgs ==
    {a \in [stack_bottom : StackBottoms, bytes : StackSizes,
            program_name : ProgramNames, backtrace : BOOLEAN,
            bounds_checks : BOOLEAN] : a.bounds_checks \/ a.bytes >= 304}

\* The arguments are chosen; nothing is built yet.
StackInit ==
    /\ fd_table = [fd \in Slots |-> NoEntry]
    /\ next_fd = FIRST_FD
    /\ devices = <<>>
    /\ opened = [fd \in Slots |-> NoInst]
    /\ \E a \in StackArgs :
         last = Called("none", NoFd, "", "",
                       [stack_top |-> a.stack_bottom + a.bytes,
                        stack_bottom |-> a.stack_bottom,
                        program_name |-> a.program_name,
                        backtrace |-> a.backtrace,
                        bounds_checks |-> a.bounds_checks],
                       0, [panic |-> "", ret |-> 0, mem |-> <<>>])
    /\ call = NoCall
    /\ stored = <<>>
    /\ frames = NewFrames
    /\ cell = NoCell

BuildStack ==
    /\ last.op = "none"
    /\ last' = [last EXCEPT
                  !.op = "build_musl_stack",
                  !.ret = build_musl_stack(last.a1.stack_top,
                                           last.a1.stack_bottom,
                                           last.a1.program_name,
                                           last.a1.backtrace,
                                           last.a1.bounds_checks)]
    /\ UNCHANGED <<fd_table, next_fd, devices, opened, call, stored, frames,
                   cell>>

StackNext == BuildStack

StackSpec == StackInit /\ [][StackNext]_vars

\* C25: the value build_musl_stack returns is the new stack pointer: a
\* multiple of 16, lower than stack_top, and the address of the word holding
\* argc = 1, with argv[0] = the program name's address one word higher and
\* the NULL that ends argv two words higher.
C25_ReturnsNewStackPointer ==
    (last.op = "build_musl_stack" /\ last.ret.panic = "")
    => LET new_sp == last.ret.ret
           mem    == last.ret.mem
       IN  /\ new_sp % 16 = 0
           /\ new_sp < last.a1.stack_top
           /\ {new_sp, new_sp + WordBytes, new_sp + 2 * WordBytes}
                \subseteq DOMAIN mem
           /\ mem[new_sp] = Usize(1)
           /\ mem[new_sp + WordBytes] = Usize(last.a1.program_name)
           /\ mem[new_sp + 2 * WordBytes] = Usize(0)

(* ------------------------- the circular scan --------------------------- *)

\* The Empty slots of tbl in lo..hi.
EmptyIn(tbl, lo, hi) == {idx \in lo..hi : ~Bound(tbl, idx)}

\* C26: a successful open returns the lowest Empty index in
\* [max(next_fd, 3), MAX_FDS - 1] if there is one, otherwise the lowest Empty
\* index in [3, max(next_fd, 3)); it then sets next_fd to fd + 1, or to 3
\* when fd = MAX_FDS - 1; next_fd stays within 3..MAX_FDS-1 in every state;
\* and a descriptor below the hint, just closed or not, is not returned
\* while a slot at or above the hint is Empty.
C26_CircularScan ==
    [][/\ next_fd' \in FIRST_FD..(MAX_FDS - 1)
       /\ (last'.op = "open" /\ last'.ret >= 0)
          => LET start == Max(next_fd, FIRST_FD)
                 upper == EmptyIn(fd_table, start, MAX_FDS - 1)
                 lower == EmptyIn(fd_table, FIRST_FD, start - 1)
                 fd    == last'.ret
             IN  /\ IF upper # {}
                    THEN fd \in upper /\ \A e \in upper : fd <= e
                    ELSE fd \in lower /\ \A e \in lower : fd <= e
                 /\ next_fd' = IF fd = MAX_FDS - 1 THEN FIRST_FD ELSE fd + 1
                 /\ (fd < next_fd => upper = {})
       /\ (last'.op # "open" \/ last'.ret < 0) => next_fd' = next_fd
      ]_vars

\* C26 witness: descriptor 3 was closed while the hint was 4, and the next
\* open returned 4 and left slot 3 Empty.
C26_Witness ==
    /\ last.op = "open" /\ last.ret = FIRST_FD + 1
    /\ ~Bound(fd_table, FIRST_FD)
    /\ opened[FIRST_FD] = NoInst
    /\ next_fd = FIRST_FD + 2

(* ------------------------ the trap-frame setters ----------------------- *)

\* The setters and the field each one writes.
SetterField ==
    [trap_frame_set_retval |-> "a0", trap_frame_set_sp |-> "sp",
     trap_frame_set_tp |-> "tp", trap_frame_set_pc |-> "mepc"]

\* The registers a fork child inherits: all but the four the setters write.
Inherited == FrameRegs \ {"a0", "sp", "tp", "mepc"}

\* dst has every inherited register of src.
KeepsParent(fr) == \A reg \in Inherited : fr.dst[reg] = fr.src[reg]

\* C27: trap_frame_set_retval, set_sp, set_tp and set_pc store their value in
\* a0, sp, tp and the saved pc respectively and leave every other register of
\* the frame, and the other frame, as they were; trap_frame_get_arg(regs, 0)
\* after set_retval(regs, v) is v; and a frame cloned from its parent still
\* has every other parent register after any of the setters.
C27_SettersWriteOneField ==
    [][/\ last'.op \in DOMAIN SetterField
          => LET reg == SetterField[last'.op]
             IN  /\ frames'.dst[reg] = last'.a1[1]
                 /\ \A other \in FrameRegs \ {reg} :
                        frames'.dst[other] = frames.dst[other]
                 /\ frames'.src = frames.src
                 /\ KeepsParent(frames) => KeepsParent(frames')
       /\ last'.op = "trap_frame_set_retval"
          => GetArg(frames'.dst, 0) = last'.a1[1]
       /\ last'.op = "trap_frame_clone" => frames'.dst = frames.src
      ]_vars

\* C27 witness: a child frame cloned from a parent whose a0 is 99, then given
\* return value 0 and a stack pointer, thread pointer and pc of 5, still has
\* the parent's other registers.
C27_Witness ==
    /\ last.op = "trap_frame_set_pc"
    /\ frames.src = [Captured EXCEPT !.a0 = 99]
    /\ frames.dst = [Captured EXCEPT !.a0 = 0, !.sp = 5, !.tp = 5, !.mepc = 5]

(* ------------------- what the calls leave unchanged -------------------- *)

\* C28: a read, write, lseek or ioctl, whatever it returns, leaves every
\* slot of the descriptor table (occupancy and device instance), the next-fd
\* hint and the factory registry as they were; close(fd) leaves the hint, the
\* registry and every slot other than fd as they were, and slot fd Empty.
C28_CallsLeaveTable ==
    [][/\ last'.op \in {"read", "write", "lseek", "ioctl"}
          => /\ fd_table' = fd_table
             /\ next_fd' = next_fd
             /\ devices' = devices
       /\ last'.op = "close"
          => /\ \A s \in Slots \ {last'.fd} : fd_table'[s] = fd_table[s]
             /\ InRange(last'.fd) => fd_table'[last'.fd] = NoEntry
             /\ next_fd' = next_fd
             /\ devices' = devices
      ]_vars

\* C28 witness: close(3) succeeded with descriptor 4 still bound to the
\* instance its open created and the hint still past it.
C28_Witness ==
    /\ last.op = "close" /\ last.fd = FIRST_FD /\ last.ret = 0
    /\ fd_table[FIRST_FD] = NoEntry
    /\ Bound(fd_table, FIRST_FD + 1)
    /\ fd_table[FIRST_FD + 1].id = opened[FIRST_FD + 1]
    /\ next_fd = FIRST_FD + 2
    /\ Len(devices) > 0

(* --------------------------- vfs.rs: open_cstr ------------------------- *)

ENAMETOOLONG == 36
\* The longest path open_cstr accepts, in bytes.
PathLimit == 4096

\* The memory a path pointer refers to: addr is the pointer (0 is null), and
\* from addr on the memory holds the bytes of prefix, then n bytes of value
\* fill, then a NUL.
CStr(addr, prefix, fill, n) ==
    [addr |-> addr, prefix |-> prefix, fill |-> fill, n |-> n]

\* *path.add(i).
ByteAt(p, i) ==
    IF i < Len(p.prefix) THEN p.prefix[i + 1]
    ELSE IF i < Len(p.prefix) + p.n THEN p.fill
    ELSE 0

\* No NUL was met within the limit.
TooLong == 0 - 1

\* cstr_len giving up one byte early (len >= 4096).
MutCstrLenEarly(p) ==
    LET nul == {i \in 0..(PathLimit - 1) : ByteAt(p, i) = 0}
    IN  IF nul = {} THEN TooLong
        ELSE CHOOSE i \in nul : \A j \in 0..(i - 1) : ByteAt(p, j) # 0

\* The length loop of open_cstr: len counts the bytes before the first NUL;
\* the loop returns -ENAMETOOLONG once len exceeds 4096, that is when bytes
\* 0..4096 are all non-NUL, having read no byte past index 4096.
cstr_len(p) ==
    LET nul == {i \in 0..PathLimit : ByteAt(p, i) = 0}
    IN  IF nul = {} THEN TooLong
        ELSE CHOOSE i \in nul : \A j \in 0..(i - 1) : ByteAt(p, j) # 0

\* core::slice::from_raw_parts(path, len).
from_raw_parts(p, len) == [i \in 1..len |-> ByteAt(p, i - 1)]

\* UTF-8: the length of the sequence a byte starts (0: it starts none).
Utf8Width(b) ==
    IF b < 128 THEN 1
    ELSE IF b >= 194 /\ b <= 223 THEN 2
    ELSE IF b >= 224 /\ b <= 239 THEN 3
    ELSE IF b >= 240 /\ b <= 244 THEN 4
    ELSE 0

\* UTF-8: a continuation byte.
Utf8Cont(b) == b >= 128 /\ b <= 191

\* UTF-8: the byte that may follow lead byte b (no overlong form, no
\* surrogate, nothing above U+10FFFF).
Utf8Second(b, c) ==
    IF b = 224 THEN c >= 160 /\ c <= 191
    ELSE IF b = 237 THEN c >= 128 /\ c <= 159
    ELSE IF b = 240 THEN c >= 144 /\ c <= 191
    ELSE IF b = 244 THEN c >= 128 /\ c <= 143
    ELSE Utf8Cont(c)

\* The path strings the VFS model knows by name, as bytes.
PathBytes ==
    [s \in {"/dev/zero", "/dev/null"} |->
        IF s = "/dev/zero" THEN <<47, 100, 101, 118, 47, 122, 101, 114, 111>>
        ELSE <<47, 100, 101, 118, 47, 110, 117, 108, 108>>]

\* The &str over a slice of well-formed bytes: the same bytes, here the name
\* of the string (any string without a name is one no device is registered
\* under).
as_str(slice) ==
    IF \E s \in DOMAIN PathBytes : PathBytes[s] = slice
    THEN CHOOSE s \in DOMAIN PathBytes : PathBytes[s] = slice
    ELSE IF Len(slice) = 0 THEN "" ELSE "(other)"

\* core::str::from_utf8: Ok(s) exactly when every byte either starts a
\* well-formed sequence that fits in the slice or continues the sequence
\* started at most three bytes before it.
from_utf8(slice) ==
    LET starts(i) ==
            LET w == Utf8Width(slice[i])
            IN  IF (i + w - 1) \notin DOMAIN slice THEN FALSE
                ELSE /\ w >= 2 => Utf8Second(slice[i], slice[i + 1])
                     /\ \A k \in 2..(w - 1) : Utf8Cont(slice[i + k])
        continues(i) ==
            \E k \in 1..3 :
                IF i - k < 1 THEN FALSE
                ELSE /\ Utf8Width(slice[i - k]) > k
                     /\ \A j \in 1..(k - 1) : Utf8Cont(slice[i - j])
        good == \A i \in DOMAIN slice :
                    IF Utf8Width(slice[i]) > 0 THEN starts(i)
                    ELSE IF Utf8Cont(slice[i]) THEN continues(i)
                    ELSE FALSE
    IN  [ok |-> good, s |-> IF good THEN as_str(slice) ELSE ""]

\* open_cstr up to the call of Vfs::open: the errno it returns without
\* calling it (0 if it calls), and the path it calls it with.
CstrCheck(p) ==
    IF p.addr = 0 THEN [err |-> EFAULT, s |-> ""]
    ELSE LET len == cstr_len(p)
         IN  IF len = TooLong THEN [err |-> ENAMETOOLONG, s |-> ""]
             ELSE LET r == from_utf8(from_raw_parts(p, len))
                  IN  IF r.ok THEN [err |-> 0, s |-> r.s]
                      ELSE [err |-> EINVAL, s |-> ""]

\* The path pointers handed to open_cstr.
CPaths ==
    <<CStr(0, <<>>, 0, 0),
      CStr(4096, PathBytes["/dev/zero"], 0, 0),
      CStr(4096, PathBytes["/dev/null"], 0, 0),
      CStr(4096, <<>>, 0, 0),
      CStr(4096, <<>>, 97, PathLimit),
      CStr(4096, <<>>, 97, PathLimit + 1),
      CStr(4096, <<>>, 255, PathLimit),
      CStr(4096, <<>>, 255, PathLimit + 1),
      CStr(4096, PathBytes["/dev/zero"], 255, 1),
      CStr(4096, <<47, 195, 169>>, 0, 0),
      CStr(4096, <<47, 195>>, 0, 0),
      CStr(4096, <<47, 128>>, 0, 0),
      CStr(4096, <<192, 128>>, 0, 0),
      CStr(4096, <<237, 160, 128>>, 0, 0),
      CStr(4096, <<240, 159, 146, 150>>, 0, 0)>>

CstrInit ==
    /\ fd_table = [fd \in Slots |-> NoEntry]
    /\ next_fd = FIRST_FD
    /\ devices = ZeroOnly
    /\ opened = [fd \in Slots |-> NoInst]
    /\ last = Called("new", NoFd, "", "", 0, 0, 0)
    /\ call = NoCall
    /\ stored = <<>>
    /\ frames = NewFrames
    /\ cell = NoCell

\* open_cstr(path, flags, mode), path being CPaths[k].
open_cstr(k) ==
    \E c \in {CstrCheck(CPaths[k])} :
    LET r == IF c.err # 0 THEN 0 - c.err
             ELSE OpenResult(fd_table, next_fd, devices, c.s)
        f == Lookup(devices, c.s)
    IN  /\ UNCHANGED <<frames, cell>>
        /\ last' = Called("open_cstr", NoFd, c.s, "", k, 0, r)
        /\ stored' = <<>>
        /\ IF r < 0
           THEN /\ call' = NoCall
                /\ UNCHANGED <<fd_table, next_fd, devices, opened>>
           ELSE LET id == NewInst(fd_table, r, "open")
                IN  /\ next_fd' = NextHint(r)
                    /\ call' = [inst |-> id, meth |-> "create",
                                args |-> <<f>>]
                    /\ fd_table' = [fd_table EXCEPT
                                      ![r] = [id |-> id, kind |-> devices[f][2]]]
                    /\ opened' = [opened EXCEPT ![r] = id]
                    /\ UNCHANGED devices

CstrNext ==
    \/ \E k \in 1..Len(CPaths) : open_cstr(k)
    \/ \E fd \in FdArgs : close(fd)

CstrSpec == CstrInit /\ [][CstrNext]_vars

\* The first 4097 bytes at p hold no NUL.
NoNulIn4097(p) == \A i \in 0..4096 : ByteAt(p, i) # 0

\* The bytes at p before the first NUL.
BytesOf(p) ==
    LET len == CHOOSE i \in 0..4096 :
                   /\ ByteAt(p, i) = 0
                   /\ \A j \in 0..(i - 1) : ByteAt(p, j) # 0
    IN  [i \in 1..len |-> ByteAt(p, i - 1)]

\* What the path at p is to open_cstr.
PathClass(p) ==
    IF p.addr = 0 THEN "null"
    ELSE IF NoNulIn4097(p) THEN "no NUL"
    ELSE IF ~from_utf8(BytesOf(p)).ok THEN "not UTF-8"
    ELSE "string"

\* C29: open_cstr fails with EFAULT for a null path, with ENAMETOOLONG for a
\* non-null path with no NUL in its first 4097 bytes, and with EINVAL for a
\* path whose bytes before the NUL are not valid UTF-8, each time leaving the
\* table, the hint, the registry and the devices alone; for any other path
\* (one of exactly 4096 bytes included) it returns what Vfs::open returns
\* for that path from the same state, and leaves the state Vfs::open leaves.
C29_OpenCstrValidates ==
    [][last'.op = "open_cstr"
       => \E k \in 1..Len(CPaths) :
            /\ last'.a1 = k
            /\ \E class \in {PathClass(CPaths[k])} :
               \E s \in {IF class = "string" THEN as_str(BytesOf(CPaths[k]))
                         ELSE ""} :
               LET r == OpenResult(fd_table, next_fd, devices, s)
                   same == /\ fd_table' = fd_table /\ next_fd' = next_fd
                           /\ devices' = devices /\ opened' = opened
                           /\ call' = NoCall
               IN  /\ class = "null" => last'.ret = 0 - EFAULT /\ same
                   /\ class = "no NUL"
                      => last'.ret = 0 - ENAMETOOLONG /\ same
                   /\ class = "not UTF-8" => last'.ret = 0 - EINVAL /\ same
                   /\ class = "string"
                      => /\ last'.ret = r
                         /\ devices' = devices
                         /\ IF r < 0 THEN same
                            ELSE /\ Bound(fd_table', r)
                                 /\ fd_table'[r].kind =
                                        devices[Lookup(devices, s)][2]
                                 /\ \A fd \in Slots \ {r} :
                                        fd_table'[fd] = fd_table[fd]
      ]_vars

\* C29 witness: with descriptor 3 bound by an earlier open_cstr of
\* "/dev/zero", a path of 4097 bytes and no NUL failed with ENAMETOOLONG.
C29_Witness ==
    /\ last.op = "open_cstr" /\ last.a1 = 6
    /\ last.ret = 0 - ENAMETOOLONG
    /\ Bound(fd_table, FIRST_FD) /\ fd_table[FIRST_FD].kind = "zero"
    /\ next_fd = FIRST_FD + 1

(* ------------------- zeroos-foundation: user_ptr.rs -------------------- *)

\* mem::align_of::<T>() of the integer types T the pointers are made for
\* (u8 and u32); their size_of is the same number.
PtrAligns == {1, 4}
\* Addresses handed to UserPtr::new: null, and addresses of every alignment.
PtrAddrs == {0, 8, 9, 10, 12}
\* Values written.
PtrVals == {1, 258}
\* The user memory the addresses fall in, a byte per address.
UserMem == 8..15

\* No memory access was made.
NoAccess == [inst |-> NoInst, meth |-> "none", args |-> <<>>]

\* A volatile access of size bytes at addr.
Access(meth, addr, size) ==
    [inst |-> NoInst, meth |-> meth, args |-> <<addr, size>>]

\* UserPtr::check with the alignment test left out.
MutCheckNullOnly(addr, align) ==
    IF addr = 0 THEN 0 - EFAULT ELSE 0

\* UserPtr::check: 0 for Ok(()), else the Err value.
UserPtr_check(addr, align) ==
    IF addr = 0 THEN 0 - EFAULT
    ELSE IF addr % align # 0 THEN 0 - EINVAL
    ELSE 0

\* The little-endian value of the size bytes of mem at addr.
RECURSIVE LoadLe(_, _, _)
LoadLe(mem, addr, size) ==
    IF size = 0 THEN 0
    ELSE mem[addr] + 256 * LoadLe(mem, addr + 1, size - 1)

\* mem with val stored at addr as size little-endian bytes.
StoreLe(mem, addr, size, val) ==
    [a \in DOMAIN mem |->
        IF a >= addr /\ a < addr + size
        THEN (val \div (256 ^ (a - addr))) % 256
        ELSE mem[a]]

\* val is a value of the integer type of size bytes.
Fits(val, size) == IF size >= 4 THEN TRUE ELSE val < 256 ^ size

\* The record of the UserPtr call a step made: ok tells Ok from Err, ret is
\* the value read (0 for a write) or the Err value.
PtrCalled(op, addr, align, val, ok, ret) ==
    [op |-> op, addr |-> addr, align |-> align, val |-> val,
     ok |-> ok, ret |-> ret]

PtrInit ==
    /\ fd_table = [fd \in Slots |-> NoEntry]
    /\ next_fd = FIRST_FD
    /\ devices = <<>>
    /\ opened = [fd \in Slots |-> NoInst]
    /\ last = PtrCalled("new", 0, 1, 0, TRUE, 0)
    /\ call = NoAccess
    /\ stored = [a \in UserMem |-> 0]
    /\ frames = NewFrames
    /\ cell = NoCell

\* UserPtr::<T>::new(addr).read().
UserPtr_read(addr, align) ==
    LET e == UserPtr_check(addr, align)
    IN  /\ IF e # 0
           THEN /\ last' = PtrCalled("read", addr, align, 0, FALSE, e)
                /\ call' = NoAccess
           ELSE /\ last' = PtrCalled("read", addr, align, 0, TRUE,
                                     LoadLe(stored, addr, align))
                /\ call' = Access("read_volatile", addr, align)
        /\ UNCHANGED <<fd_table, next_fd, devices, opened, stored, frames,
                       cell>>

\* UserPtr::<T>::new(addr).write(val).
UserPtr_write(addr, align, val) ==
    LET e == UserPtr_check(addr, align)
    IN  /\ IF e # 0
           THEN /\ last' = PtrCalled("write", addr, align, val, FALSE, e)
                /\ call' = NoAccess
                /\ UNCHANGED stored
           ELSE /\ last' = PtrCalled("write", addr, align, val, TRUE, 0)
                /\ call' = Access("write_volatile", addr, align)
                /\ stored' = StoreLe(stored, addr, align, val)
        /\ UNCHANGED <<fd_table, next_fd, devices, opened, frames, cell>>

PtrNext ==
    \/ \E addr \in PtrAddrs, align \in PtrAligns : UserPtr_read(addr, align)
    \/ \E addr \in PtrAddrs, align \in PtrAligns, val \in PtrVals :
          /\ Fits(val, align)
          /\ UserPtr_write(addr, align, val)

PtrSpec == PtrInit /\ [][PtrNext]_vars

\* The address is null or not a multiple of the alignment of T.
Rejected(addr, align) ==
    addr = 0 \/ \E k \in 1..(align - 1) : (addr - k) % align = 0

\* C30 as stated: a read or write through a null address or an address not
\* aligned for T fails with EFAULT and accesses no memory, and every other
\* read or write accesses the memory at the address.
C30_RejectedIsEfault ==
    [][last'.op \in {"read", "write"}
       => IF Rejected(last'.addr, last'.align)
          THEN /\ ~last'.ok /\ last'.ret = 0 - EFAULT
               /\ call' = NoAccess /\ stored' = stored
          ELSE /\ last'.ok
               /\ call'.args = <<last'.addr, last'.align>>
      ]_vars

\* C30 amended: a read or write through a null address fails with EFAULT,
\* through a non-null address not aligned for T with EINVAL, either
\* accessing no memory; every other read returns the value at the address,
\* every other write stores its value there, accessing those bytes only.
C30_RejectedIsNotAccessed ==
    [][last'.op \in {"read", "write"}
       => IF Rejected(last'.addr, last'.align)
          THEN /\ ~last'.ok
               /\ last'.ret = IF last'.addr = 0 THEN 0 - EFAULT
                              ELSE 0 - EINVAL
               /\ call' = NoAccess /\ stored' = stored
          ELSE /\ last'.ok
               /\ call'.args = <<last'.addr, last'.align>>
               /\ \A a \in UserMem :
                      (a < last'.addr \/ a >= last'.addr + last'.align)
                      => stored'[a] = stored[a]
               /\ last'.op = "read"
                  => /\ stored' = stored
                     /\ last'.ret = LoadLe(stored, last'.addr, last'.align)
               /\ last'.op = "write"
                  => LoadLe(stored', last'.addr, last'.align) = last'.val
      ]_vars

\* C30 witness: a read of a u32 at address 10 was rejected with EINVAL while
\* the memory holds the 258 an earlier write stored at address 8.
C30_Witness ==
    /\ last.op = "read" /\ last.addr = 10 /\ last.align = 4
    /\ ~last.ok /\ last.ret = 0 - EINVAL
    /\ call = NoAccess
    /\ stored[8] = 2 /\ stored[9] = 1 /\ stored[10] = 0

====
